---- MODULE Spec2Model ----
(***************************************************************************)
(* A model of the maze interpreter of PythonMazeGame.                      *)
(*                                                                         *)
(* Part I models MazeEngine (src/maze_engine.py): the world model, the     *)
(* validator _validate_tree, the evaluator eval_expr and the generator     *)
(* exec_block.  The generator is modelled as a small-step machine over an  *)
(* explicit stack of frames, one frame per live (sub)generator, so that a  *)
(* resumption that never returns is a cycle of the state graph.            *)
(*                                                                         *)
(* Python ASTs are records with a field k holding the node class name and  *)
(* the fields of that class (ast.If: test, body, orelse; ...).  Line       *)
(* numbers are left out: they only appear in diagnostics.                  *)
(***************************************************************************)
EXTENDS Integers, Sequences, FiniteSets, TLC

VARIABLES
    maze,          \* self.maze: the grid, a sequence of rows of characters
    pos,           \* self.pos: <<row, col>>, 0-based as in the code
    dir,           \* self.dir: 0 up, 1 right, 2 down, 3 left
    action_count,  \* self.action_count
    running,       \* self.running
    log,           \* messages passed to log_fn since the last reset
    code,          \* the body of the tree handed to the live generator
    gen,           \* state of the step generator returned by compile_user_code
    stack,         \* the suspended call stack of the generator (top = last)
    broke,         \* a loop of this run was left by its budget break
    raised,        \* the exception the last call into the program raised
    timers,        \* game.py: the step_runner callbacks root.after holds
    row,           \* maze_api.py: row
    col,           \* maze_api.py: col
    direction,     \* maze_api.py: direction
    queue,         \* maze_api.py: the actions handed to js_enqueue_action
    who,           \* the component the host drives: "engine", "api", "game", ...
    trail,         \* the steps of the run the host drives, or its direct calls
    prev,          \* what the host saw of the run before the current one
    locals,        \* main.py: SafeInterpreter.locals
    after,         \* maze_game.py: the callbacks window.after holds
    runs,          \* maze_game.py: the number of runs started
    owner,         \* maze_game.py: the run whose generator is in stack
    run_btn,       \* maze_game.py: the state of the Run button
    maze_str,      \* the maze text given to MazeEngine(maze_str)
    steps,         \* maze.py run_user_code: the lines the trace function counted
    trace_set,     \* maze.py: sys.settrace holds the trace function
    f_lineno,      \* maze.py: the line of the user code about to execute
    executed,      \* maze.py: the user-code lines executed by this call
    elapsed,       \* maze.py: time.time() - start
    exec_state,    \* maze.py, maze_api.py: where the call in progress stands
    queue_mark,    \* the length of queue at the last reset_state
    iter_mark      \* the length of queue at the last loop test of follow_right_wall

\* The fields of MazeEngine and the state of its generator; game.py's
\* MazeGame keeps the same fields under the same names.
engineVars == <<maze, pos, dir, action_count, running, log, code, gen, stack, broke, raised>>

apiVars == <<row, col, direction, queue>>

hostVars == <<who, trail>>

\* The state of the other hosts, which the engine and game.py leave alone.
pyVars == <<steps, trace_set, f_lineno, executed, elapsed, exec_state>>

\* What the model keeps of the queue of the host's page.
markVars == <<queue_mark, iter_mark>>

extVars == <<prev, locals, after, runs, owner, run_btn, maze_str, pyVars, markVars>>

vars == <<engineVars, timers, apiVars, hostVars, extVars>>

-----------------------------------------------------------------------------
(* Bounds of the model.                                                    *)

\* The action ceiling.  The source sets 2000 (src/maze_engine.py:7); the
\* model scales it down so that runs reach the ceiling.
MAX_ACTIONS == 3

-----------------------------------------------------------------------------
(* Python AST nodes.                                                       *)

Name(id) == [k |-> "Name", id |-> id]

\* ty is the Python type of the literal: "bool", "int" or "str"; a bool is
\* held as 0/1 (Python: isinstance(True, int), True == 1).
Constant(ty, value) == [k |-> "Constant", ty |-> ty, value |-> value]

Call(func, args) == [k |-> "Call", func |-> func, args |-> args, keywords |-> <<>>]

Attribute(value, attr) == [k |-> "Attribute", value |-> value, attr |-> attr]

UnaryOp(op, operand) == [k |-> "UnaryOp", op |-> op, operand |-> operand]

BoolOp(op, values) == [k |-> "BoolOp", op |-> op, values |-> values]

Compare(left, ops, comparators) ==
    [k |-> "Compare", left |-> left, ops |-> ops, comparators |-> comparators]

Expr(value) == [k |-> "Expr", value |-> value]

If(test, body, orelse) == [k |-> "If", test |-> test, body |-> body, orelse |-> orelse]

While(test, body, orelse) ==
    [k |-> "While", test |-> test, body |-> body, orelse |-> orelse]

For(target, iter, body, orelse) ==
    [k |-> "For", target |-> target, iter |-> iter, body |-> body, orelse |-> orelse]

Pass == [k |-> "Pass"]

Assign(targets, value) == [k |-> "Assign", targets |-> targets, value |-> value]

AugAssign(target, op, value) ==
    [k |-> "AugAssign", target |-> target, op |-> op, value |-> value]

BinOp(left, op, right) == [k |-> "BinOp", left |-> left, op |-> op, right |-> right]

Import == [k |-> "Import"]

Module(body) == [k |-> "Module", body |-> body]

\* The child nodes of a node, as ast.iter_child_nodes yields them.
Children(n) ==
    CASE n.k = "Module"    -> n.body
      [] n.k = "Expr"      -> <<n.value>>
      [] n.k = "Call"      -> <<n.func>> \o n.args \o n.keywords
      [] n.k = "Attribute" -> <<n.value>>
      [] n.k = "UnaryOp"   -> <<n.operand>>
      [] n.k = "BoolOp"    -> n.values
      [] n.k = "Compare"   -> <<n.left>> \o n.comparators
      [] n.k = "If"        -> <<n.test>> \o n.body \o n.orelse
      [] n.k = "While"     -> <<n.test>> \o n.body \o n.orelse
      [] n.k = "For"       -> <<n.target, n.iter>> \o n.body \o n.orelse
      [] n.k = "Assign"    -> n.targets \o <<n.value>>
      [] n.k = "AugAssign" -> <<n.target, n.value>>
      [] n.k = "BinOp"     -> <<n.left, n.right>>
      [] OTHER             -> <<>>

-----------------------------------------------------------------------------
(* MazeEngine: constants and world model.                                  *)

ACTION_FUNCS == {"move", "turn_left", "turn_right"}

COND_FUNCS == {"at_goal", "path_ahead", "path_left", "path_right"}

maze_rows == Len(maze)

maze_cols == Len(maze[1])

Cells == {<<r, c>> : r \in 0 .. maze_rows - 1, c \in 0 .. maze_cols - 1}

\* maze[r][c] with the code's 0-based indices
cell(r, c) == maze[r + 1][c + 1]

maze_start == CHOOSE p \in Cells : cell(p[1], p[2]) = "S"

maze_goal == CHOOSE p \in Cells : cell(p[1], p[2]) = "G"

in_bounds(r, c) == 0 <= r /\ r < maze_rows /\ 0 <= c /\ c < maze_cols

is_wall(r, c) == IF ~in_bounds(r, c) THEN TRUE ELSE cell(r, c) = "#"

\* forward_delta with the sign of the last case lost
forward_delta_left_as_right(d) ==
    IF d = 0 THEN <<-1, 0>>
    ELSE IF d = 1 THEN <<0, 1>>
    ELSE IF d = 2 THEN <<1, 0>>
    ELSE <<0, 1>>

forward_delta(d) ==
    IF d = 0 THEN <<-1, 0>>
    ELSE IF d = 1 THEN <<0, 1>>
    ELSE IF d = 2 THEN <<1, 0>>
    ELSE <<0, -1>>

\* left_dir without the wrap-around
left_dir_no_wrap == dir - 1

left_dir == (dir - 1) % 4

right_dir == (dir + 1) % 4

\* path_ahead that sees no wall
path_ahead_always == TRUE

path_ahead ==
    LET d == forward_delta(dir) IN ~is_wall(pos[1] + d[1], pos[2] + d[2])

path_left ==
    LET d == forward_delta(left_dir) IN ~is_wall(pos[1] + d[1], pos[2] + d[2])

path_right ==
    LET d == forward_delta(right_dir) IN ~is_wall(pos[1] + d[1], pos[2] + d[2])

at_goal == pos = maze_goal

\* getattr(self, fname)() for fname in COND_FUNCS
predicate(fname) ==
    CASE fname = "at_goal"    -> at_goal
      [] fname = "path_ahead" -> path_ahead
      [] fname = "path_left"  -> path_left
      [] fname = "path_right" -> path_right

\* The actions return the fields they assign, the messages they log and,
\* for do_move, the value they return.
do_turn_left == [pos |-> pos, dir |-> left_dir, running |-> running, log |-> <<>>]

do_turn_right == [pos |-> pos, dir |-> right_dir, running |-> running, log |-> <<>>]

\* do_move where a bump ends the run
do_move_bump_stops ==
    IF path_ahead
    THEN LET d == forward_delta(dir)
             p == <<pos[1] + d[1], pos[2] + d[2]>>
         IN  IF p = maze_goal
             THEN [pos |-> p, dir |-> dir, running |-> FALSE,
                   log |-> <<"Reached the goal!">>, ret |-> TRUE]
             ELSE [pos |-> p, dir |-> dir, running |-> running,
                   log |-> <<>>, ret |-> TRUE]
    ELSE [pos |-> pos, dir |-> dir, running |-> FALSE,
          log |-> <<"Bumped into a wall.">>, ret |-> FALSE]

\* do_move without the stop at the goal
do_move_keeps_running ==
    IF path_ahead
    THEN LET d == forward_delta(dir)
         IN  [pos |-> <<pos[1] + d[1], pos[2] + d[2]>>, dir |-> dir,
              running |-> running, log |-> <<>>, ret |-> TRUE]
    ELSE [pos |-> pos, dir |-> dir, running |-> running,
          log |-> <<"Bumped into a wall.">>, ret |-> FALSE]

do_move ==
    IF path_ahead
    THEN LET d == forward_delta(dir)
             p == <<pos[1] + d[1], pos[2] + d[2]>>
         IN  IF p = maze_goal
             THEN [pos |-> p, dir |-> dir, running |-> FALSE,
                   log |-> <<"Reached the goal!">>, ret |-> TRUE]
             ELSE [pos |-> p, dir |-> dir, running |-> running,
                   log |-> <<>>, ret |-> TRUE]
    ELSE [pos |-> pos, dir |-> dir, running |-> running,
          log |-> <<"Bumped into a wall.">>, ret |-> FALSE]

-----------------------------------------------------------------------------
(* MazeEngine: validation.                                                 *)

Unsupported ==
    {"Import", "ImportFrom", "With", "Try", "Raise", "Lambda", "ClassDef",
     "FunctionDef", "AsyncFunctionDef", "Await", "ListComp", "DictComp",
     "SetComp", "GeneratorExp", "Delete"}

\* The visit of one node by the loop of _validate_tree raises.
validate_node_raises(node) ==
    \/ node.k \in Unsupported
    \/ node.k = "Attribute"
    \/ node.k = "Subscript"
    \/ /\ node.k = "Call"
       /\ \/ node.func.k # "Name"
          \/ node.func.id \notin (ACTION_FUNCS \cup COND_FUNCS \cup {"range"})

RECURSIVE walk_raises(_)
\* Some node that ast.walk(node) yields raises.
walk_raises(node) ==
    \/ validate_node_raises(node)
    \/ \E i \in DOMAIN Children(node) : walk_raises(Children(node)[i])

\* TRUE iff _validate_tree(tree) returns without raising UserCodeError.
validate_tree(tree) == ~walk_raises(tree)

-----------------------------------------------------------------------------
(* MazeEngine: the evaluator.  A result is [ok, v]: ok = FALSE when the    *)
(* evaluation raises UserCodeError, and v is the boolean returned.         *)

Raise == [ok |-> FALSE, v |-> FALSE]

Return(v) == [ok |-> TRUE, v |-> v]

RECURSIVE eval_expr(_)
RECURSIVE eval_and(_, _, _)
RECURSIVE eval_and_no_break(_, _, _)
RECURSIVE eval_or(_, _, _)

\* The loop of And without its break.
eval_and_no_break(values, i, result) ==
    IF i > Len(values) THEN Return(result)
    ELSE LET r == eval_expr(values[i])
         IN  IF ~r.ok THEN Raise
             ELSE eval_and_no_break(values, i + 1, result /\ r.v)

\* for v in node.values: result = bool(eval_expr(v)); if not result: break
eval_and(values, i, result) ==
    IF i > Len(values) THEN Return(result)
    ELSE LET r == eval_expr(values[i])
         IN  IF ~r.ok THEN Raise
             ELSE IF ~r.v THEN Return(FALSE)
             ELSE eval_and(values, i + 1, r.v)

\* for v in node.values: result = bool(eval_expr(v)); if result: break
eval_or(values, i, result) ==
    IF i > Len(values) THEN Return(result)
    ELSE LET r == eval_expr(values[i])
         IN  IF ~r.ok THEN Raise
             ELSE IF r.v THEN Return(TRUE)
             ELSE eval_or(values, i + 1, r.v)

eval_expr(node) ==
    IF node.k = "Call" THEN
        IF node.func.k # "Name" THEN Raise
        ELSE IF node.func.id \notin COND_FUNCS THEN Raise
        ELSE IF node.args # <<>> \/ node.keywords # <<>> THEN Raise
        ELSE Return(predicate(node.func.id))
    ELSE IF node.k = "UnaryOp" /\ node.op = "Not" THEN
        LET r == eval_expr(node.operand)
        IN  IF r.ok THEN Return(~r.v) ELSE Raise
    ELSE IF node.k = "BoolOp" THEN
        IF node.op = "And" THEN eval_and(node.values, 1, TRUE)
        ELSE IF node.op = "Or" THEN eval_or(node.values, 1, FALSE)
        ELSE Raise
    ELSE IF node.k = "Constant" /\ node.ty = "bool" THEN Return(node.value = 1)
    ELSE IF node.k = "Name" /\ node.id \in {"True", "False"} THEN
        Return(node.id = "True")
    ELSE IF node.k = "Compare" THEN
        IF Len(node.ops) # 1 \/ Len(node.comparators) # 1 THEN Raise
        ELSE LET left == eval_expr(node.left)
                 right == eval_expr(node.comparators[1])
             IN  IF ~left.ok \/ ~right.ok THEN Raise
                 ELSE IF node.ops[1] = "Eq" THEN Return(left.v = right.v)
                 ELSE IF node.ops[1] = "NotEq" THEN Return(left.v # right.v)
                 ELSE Raise
    ELSE Raise

-----------------------------------------------------------------------------
(* MazeEngine: the statement executor.                                     *)
(*                                                                         *)
(* gen is "none" before the first successful compile, "suspended" when the *)
(* generator waits for next() (freshly created, or stopped at a yield),    *)
(* "executing" while a next() call runs, "done" once it is exhausted and   *)
(* "faulted" once it raised UserCodeError.  The frames of stack are        *)
(*   [k "block", stmts, i]     exec_block(stmts) about to take stmts[i];   *)
(*   [k "while", node, ph]     the while loop of node, at its test         *)
(*                             (ph "test") or after its body (ph "after"); *)
(*   [k "for", node, i, stop, ph]  the loop of _exec_for, before drawing   *)
(*                             the next value i (ph "top") or after the    *)
(*                             body (ph "after").                          *)

StoppedMsg == "Program stopped: exceeded MAX_ACTIONS actions."

BlockFrame(stmts) == [k |-> "block", stmts |-> stmts, i |-> 1]

WhileFrame(node) == [k |-> "while", node |-> node, ph |-> "test"]

ForFrame(node, start, stop) ==
    [k |-> "for", node |-> node, i |-> start, stop |-> stop, ph |-> "top"]

top == stack[Len(stack)]

rest == SubSeq(stack, 1, Len(stack) - 1)

\* The statement exec_block is about to take (defined when top is a block
\* frame that has one).
line == top.stmts[top.i]

\* The frames once the for loop of exec_block has moved on to the next
\* statement.
advanced == Append(rest, [top EXCEPT !.i = top.i + 1])

\* A generator returns: its frame is dropped; the generator of the run is
\* exhausted when it was the outermost.
Returns(st) ==
    /\ stack' = st
    /\ gen' = IF st = <<>> THEN "done" ELSE "executing"

\* UserCodeError leaves the generator: every frame is unwound.
Raises ==
    /\ stack' = <<>>
    /\ gen' = "faulted"
    /\ raised' = "UserCodeError"
    /\ UNCHANGED <<maze, pos, dir, action_count, running, log, code, broke>>

\* _exec_action_call where a turn does not count as an action
exec_action_call_turn_uncounted(call) ==
    IF call.func.k # "Name" THEN Raises
    ELSE IF call.func.id \notin ACTION_FUNCS THEN Raises
    ELSE IF call.args # <<>> \/ call.keywords # <<>> THEN Raises
    ELSE LET fname == call.func.id
             r == CASE fname = "move"       -> do_move
                    [] fname = "turn_left"  -> do_turn_left
                    [] fname = "turn_right" -> do_turn_right
         IN  /\ action_count' = IF fname = "move" THEN action_count + 1 ELSE action_count
             /\ pos' = r.pos
             /\ dir' = r.dir
             /\ running' = r.running
             /\ log' = log \o r.log
             /\ gen' = "suspended"
             /\ stack' = advanced
             /\ UNCHANGED <<maze, code, broke, raised>>

\* _exec_action_call up to its yield.
exec_action_call(call) ==
    IF call.func.k # "Name" THEN Raises
    ELSE IF call.func.id \notin ACTION_FUNCS THEN Raises
    ELSE IF call.args # <<>> \/ call.keywords # <<>> THEN Raises
    ELSE LET fname == call.func.id
             r == CASE fname = "move"       -> do_move
                    [] fname = "turn_left"  -> do_turn_left
                    [] fname = "turn_right" -> do_turn_right
         IN  /\ action_count' = action_count + 1
             /\ pos' = r.pos
             /\ dir' = r.dir
             /\ running' = r.running
             /\ log' = log \o r.log
             /\ gen' = "suspended"
             /\ stack' = advanced
             /\ UNCHANGED <<maze, code, broke, raised>>

\* _parse_range_bound: [ok, v]
parse_range_bound(expr) ==
    IF expr.k = "Constant" /\ expr.ty \in {"int", "bool"}
    THEN [ok |-> TRUE, v |-> expr.value]
    ELSE IF /\ expr.k = "UnaryOp"
            /\ expr.op = "USub"
            /\ expr.operand.k = "Constant"
            /\ expr.operand.ty \in {"int", "bool"}
    THEN [ok |-> TRUE, v |-> -expr.operand.value]
    ELSE [ok |-> FALSE, v |-> 0]

\* _exec_for up to its loop: the bounds [ok, start, stop] of the range.
for_range(node) ==
    LET it == node.iter
        bad == [ok |-> FALSE, start |-> 0, stop |-> 0]
    IN  IF ~(it.k = "Call" /\ it.func.k = "Name" /\ it.func.id = "range") THEN bad
        ELSE IF Len(it.args) = 1 THEN
            LET b == parse_range_bound(it.args[1])
            IN  IF b.ok THEN [ok |-> TRUE, start |-> 0, stop |-> b.v] ELSE bad
        ELSE IF Len(it.args) = 2 THEN
            LET a == parse_range_bound(it.args[1])
                b == parse_range_bound(it.args[2])
            IN  IF a.ok /\ b.ok THEN [ok |-> TRUE, start |-> a.v, stop |-> b.v]
                ELSE bad
        ELSE bad

RECURSIVE if_orelse(_, _)
\* The else branch of the If of exec_block, from index idx (1-based) of
\* node.orelse: the block it executes, [act |-> "block", stmts], nothing
\* ([act |-> "none"]) or a raise ([act |-> "raise"]).
if_orelse(node, idx) ==
    IF idx > Len(node.orelse) THEN [act |-> "none", stmts |-> <<>>]
    ELSE LET o == node.orelse[idx]
         IN  IF o.k = "If" THEN
                 IF ~running THEN if_orelse(node, idx + 1)
                 ELSE LET t == eval_expr(o.test)
                      IN  IF ~t.ok THEN [act |-> "raise", stmts |-> <<>>]
                          ELSE IF t.v THEN [act |-> "block", stmts |-> o.body]
                          ELSE if_orelse(node, idx + 1)
             ELSE IF running
                  THEN [act |-> "block",
                        stmts |-> SubSeq(node.orelse, idx, Len(node.orelse))]
                  ELSE [act |-> "none", stmts |-> <<>>]

\* The If statement of exec_block: what it executes.
exec_if(node) ==
    IF ~running THEN if_orelse(node, 1)
    ELSE LET t == eval_expr(node.test)
         IN  IF ~t.ok THEN [act |-> "raise", stmts |-> <<>>]
             ELSE IF t.v THEN [act |-> "block", stmts |-> node.body]
             ELSE if_orelse(node, 1)

\* the budget test of exec_block, one action late
budget_exceeded_late == action_count > MAX_ACTIONS + 1

\* The budget test exec_block makes before each statement.
budget_exceeded == action_count > MAX_ACTIONS

\* One statement of the for loop of exec_block.
exec_block ==
    /\ gen = "executing"
    /\ top.k = "block"
    /\ IF top.i > Len(top.stmts) THEN
           /\ Returns(rest)
           /\ UNCHANGED <<maze, pos, dir, action_count, running, log, code, broke, raised>>
       ELSE IF ~running THEN
           /\ Returns(rest)
           /\ UNCHANGED <<maze, pos, dir, action_count, running, log, code, broke, raised>>
       ELSE IF budget_exceeded THEN
           /\ log' = Append(log, StoppedMsg)
           /\ running' = FALSE
           /\ Returns(rest)
           /\ UNCHANGED <<maze, pos, dir, action_count, code, broke, raised>>
       ELSE IF line.k = "Expr" /\ line.value.k = "Call" THEN
           exec_action_call(line.value)
       ELSE IF line.k = "While" THEN
           /\ stack' = Append(advanced, WhileFrame(line))
           /\ UNCHANGED <<maze, pos, dir, action_count, running, log, code, gen, broke, raised>>
       ELSE IF line.k = "If" THEN
           LET b == exec_if(line)
           IN  IF b.act = "raise" THEN Raises
               ELSE /\ stack' = IF b.act = "block"
                                THEN Append(advanced, BlockFrame(b.stmts))
                                ELSE advanced
                    /\ UNCHANGED <<maze, pos, dir, action_count, running, log, code, gen, broke, raised>>
       ELSE IF line.k = "For" THEN
           LET b == for_range(line)
           IN  IF ~b.ok THEN Raises
               ELSE /\ stack' = Append(advanced, ForFrame(line, b.start, b.stop))
                    /\ UNCHANGED <<maze, pos, dir, action_count, running, log, code, gen, broke, raised>>
       ELSE IF line.k = "Pass" THEN
           /\ stack' = advanced
           /\ UNCHANGED <<maze, pos, dir, action_count, running, log, code, gen, broke, raised>>
       ELSE Raises

\* The else clause entered whether or not the run is still running.
while_orelse_ignores_running(node) ==
    IF node.orelse # <<>>
    THEN /\ stack' = Append(rest, BlockFrame(node.orelse))
         /\ gen' = gen
    ELSE Returns(rest)

\* The else clause of the while loop, reached when the loop is left.
while_orelse(node) ==
    IF node.orelse # <<>> /\ running
    THEN /\ stack' = Append(rest, BlockFrame(node.orelse))
         /\ gen' = gen
    ELSE Returns(rest)

\* The while loop of exec_block: its test, and the budget check after its
\* body.
exec_while ==
    /\ gen = "executing"
    /\ top.k = "while"
    /\ IF top.ph = "test" THEN
           IF ~running THEN
               /\ while_orelse(top.node)
               /\ UNCHANGED <<maze, pos, dir, action_count, running, log, code, broke, raised>>
           ELSE LET t == eval_expr(top.node.test)
                IN  IF ~t.ok THEN Raises
                    ELSE IF t.v THEN
                        /\ stack' = Append(Append(rest, [top EXCEPT !.ph = "after"]),
                                           BlockFrame(top.node.body))
                        /\ UNCHANGED <<maze, pos, dir, action_count, running, log, code, gen, broke, raised>>
                    ELSE
                        /\ while_orelse(top.node)
                        /\ UNCHANGED <<maze, pos, dir, action_count, running, log, code, broke, raised>>
       ELSE IF action_count > MAX_ACTIONS THEN
           /\ broke' = TRUE
           /\ while_orelse(top.node)
           /\ UNCHANGED <<maze, pos, dir, action_count, running, log, code, raised>>
       ELSE
           /\ stack' = Append(rest, [top EXCEPT !.ph = "test"])
           /\ UNCHANGED <<maze, pos, dir, action_count, running, log, code, gen, broke, raised>>

\* _exec_for with range(start, stop + 1).
exec_for_inclusive ==
    /\ gen = "executing"
    /\ top.k = "for"
    /\ IF top.ph = "top" THEN
           IF top.i > top.stop THEN
               /\ Returns(rest)
               /\ UNCHANGED <<maze, pos, dir, action_count, running, log, code, broke, raised>>
           ELSE IF ~running \/ action_count > MAX_ACTIONS THEN
               /\ broke' = (broke \/ action_count > MAX_ACTIONS)
               /\ Returns(rest)
               /\ UNCHANGED <<maze, pos, dir, action_count, running, log, code, raised>>
           ELSE
               /\ stack' = Append(Append(rest, [top EXCEPT !.i = top.i + 1, !.ph = "after"]),
                                  BlockFrame(top.node.body))
               /\ UNCHANGED <<maze, pos, dir, action_count, running, log, code, gen, broke, raised>>
       ELSE IF action_count > MAX_ACTIONS THEN
           /\ broke' = TRUE
           /\ Returns(rest)
           /\ UNCHANGED <<maze, pos, dir, action_count, running, log, code, raised>>
       ELSE
           /\ stack' = Append(rest, [top EXCEPT !.ph = "top"])
           /\ UNCHANGED <<maze, pos, dir, action_count, running, log, code, gen, broke, raised>>

\* The loop of _exec_for.
exec_for ==
    /\ gen = "executing"
    /\ top.k = "for"
    /\ IF top.ph = "top" THEN
           IF top.i >= top.stop THEN
               /\ Returns(rest)
               /\ UNCHANGED <<maze, pos, dir, action_count, running, log, code, broke, raised>>
           ELSE IF ~running \/ action_count > MAX_ACTIONS THEN
               /\ broke' = (broke \/ action_count > MAX_ACTIONS)
               /\ Returns(rest)
               /\ UNCHANGED <<maze, pos, dir, action_count, running, log, code, raised>>
           ELSE
               /\ stack' = Append(Append(rest, [top EXCEPT !.i = top.i + 1, !.ph = "after"]),
                                  BlockFrame(top.node.body))
               /\ UNCHANGED <<maze, pos, dir, action_count, running, log, code, gen, broke, raised>>
       ELSE IF action_count > MAX_ACTIONS THEN
           /\ broke' = TRUE
           /\ Returns(rest)
           /\ UNCHANGED <<maze, pos, dir, action_count, running, log, code, raised>>
       ELSE
           /\ stack' = Append(rest, [top EXCEPT !.ph = "top"])
           /\ UNCHANGED <<maze, pos, dir, action_count, running, log, code, gen, broke, raised>>

\* The host resumes the generator: next(code_iter).
resume ==
    /\ gen = "suspended"
    /\ gen' = "executing"
    /\ raised' = "none"
    /\ UNCHANGED <<maze, pos, dir, action_count, running, log, code, stack, broke>>

\* reset() without the assignment to action_count
reset_keeps_count ==
    /\ action_count' = action_count
    /\ running' = TRUE
    /\ dir' = 1
    /\ pos' = maze_start

\* reset() without the assignment to dir
reset_keeps_dir ==
    /\ action_count' = 0
    /\ running' = TRUE
    /\ dir' = dir
    /\ pos' = maze_start

\* reset(): the fields it assigns.
reset ==
    /\ action_count' = 0
    /\ running' = TRUE
    /\ dir' = 1
    /\ pos' = maze_start

\* What ast.parse makes of a source text that is not Python: it raises
\* SyntaxError and there is no tree.
Unparsable == <<[k |-> "SyntaxError"]>>

\* TRUE iff compile_user_code gets past ast.parse and _validate_tree.
compiles(body) == body # Unparsable /\ validate_tree(Module(body))

\* compile_user_code where the reset comes before the validation
compile_user_code_reset_first(body) ==
    /\ gen # "executing"
    /\ reset
    /\ IF compiles(body)
       THEN /\ log' = <<>>
            /\ code' = body
            /\ gen' = "suspended"
            /\ stack' = <<BlockFrame(body)>>
            /\ broke' = FALSE
            /\ raised' = "none"
            /\ UNCHANGED maze
       ELSE /\ raised' = "UserCodeError"
            /\ UNCHANGED <<maze, log, code, gen, stack, broke>>

\* compile_user_code on the body of the tree ast.parse returns, or on
\* Unparsable.
compile_user_code(body) ==
    /\ gen # "executing"
    /\ IF compiles(body)
       THEN /\ reset
            /\ log' = <<>>
            /\ code' = body
            /\ gen' = "suspended"
            /\ stack' = <<BlockFrame(body)>>
            /\ broke' = FALSE
            /\ raised' = "none"
            /\ UNCHANGED maze
       ELSE /\ raised' = "UserCodeError"
            /\ UNCHANGED <<maze, pos, dir, action_count, running, log, code, gen, stack, broke>>

-----------------------------------------------------------------------------
(* maze_api.py: the Pyodide game API.  The maze belongs to the JavaScript  *)
(* host (maze.js, not part of the sources): its globals and js_is_wall are *)
(* modelled on the maze the engine holds.                                  *)

JS_MAZE_START_ROW == maze_start[1]

JS_MAZE_START_COL == maze_start[2]

js_is_wall(r, c) == IF ~in_bounds(r, c) THEN TRUE ELSE cell(r, c) = "#"

DIRS == << <<-1, 0>>, <<0, 1>>, <<1, 0>>, <<0, -1>> >>

\* _step_forward; DIRS[d] with the code's 0-based index
step_forward(r, c, d) == <<r + DIRS[d + 1][1], c + DIRS[d + 1][2]>>

api_move ==
    LET n == step_forward(row, col, direction)
    IN  IF js_is_wall(n[1], n[2])
        THEN /\ raised' = "RuntimeError"
             /\ UNCHANGED <<row, col, direction, queue>>
        ELSE /\ row' = n[1]
             /\ col' = n[2]
             /\ queue' = Append(queue, "move")
             /\ raised' = "none"
             /\ UNCHANGED direction

api_turn_left ==
    /\ direction' = (direction - 1) % 4
    /\ queue' = Append(queue, "turnLeft")
    /\ raised' = "none"
    /\ UNCHANGED <<row, col>>

\* turn_right turning to the left
api_turn_right_turns_left ==
    /\ direction' = (direction - 1) % 4
    /\ queue' = Append(queue, "turnRight")
    /\ raised' = "none"
    /\ UNCHANGED <<row, col>>

api_turn_right ==
    /\ direction' = (direction + 1) % 4
    /\ queue' = Append(queue, "turnRight")
    /\ raised' = "none"
    /\ UNCHANGED <<row, col>>

-----------------------------------------------------------------------------
(* maze.py: the game API of the Pyodide page with its own copy of the      *)
(* maze.  JS_MAZE and its sizes are globals of the JavaScript host: they   *)
(* are modelled on maze.  row, col and direction are the module's globals. *)

JS_MAZE_NUM_ROWS == Len(maze)

JS_MAZE_NUM_COLS == Len(maze[1])

py_in_bounds(r, c) == 0 <= r /\ r < JS_MAZE_NUM_ROWS /\ 0 <= c /\ c < JS_MAZE_NUM_COLS

py_is_wall(r, c) == IF ~py_in_bounds(r, c) THEN TRUE ELSE maze[r + 1][c + 1] = "#"

\* not _is_wall of the cell next to (row, col) in direction d
py_path(d) ==
    LET n == step_forward(row, col, d) IN ~py_is_wall(n[1], n[2])

\* path_behind looking to the left
py_path_behind_as_left == py_path((direction - 1) % 4)

py_path_behind == py_path((direction - 2) % 4)

py_path_ahead == py_path(direction)

py_path_left == py_path((direction - 1) % 4)

py_path_right == py_path((direction + 1) % 4)

\* reset_state keeping the direction
reset_state_keeps_direction ==
    /\ row' = JS_MAZE_START_ROW
    /\ col' = JS_MAZE_START_COL
    /\ UNCHANGED direction

\* reset_state of maze.py
reset_state ==
    /\ row' = JS_MAZE_START_ROW
    /\ col' = JS_MAZE_START_COL
    /\ direction' = 1

\* move of maze.py, enqueuing its action before its two tests
py_move_enqueues_first ==
    LET n == step_forward(row, col, direction)
    IN  IF ~py_in_bounds(n[1], n[2]) \/ maze[n[1] + 1][n[2] + 1] = "#"
        THEN /\ raised' = "RuntimeError"
             /\ queue' = Append(queue, "move")
             /\ UNCHANGED <<row, col, direction>>
        ELSE /\ row' = n[1]
             /\ col' = n[2]
             /\ queue' = Append(queue, "move")
             /\ raised' = "none"
             /\ UNCHANGED direction

\* move of maze.py: the two tests, each with its RuntimeError, then the
\* step and js_enqueue_action("move").
py_move ==
    LET n == step_forward(row, col, direction)
    IN  IF ~py_in_bounds(n[1], n[2])
        THEN /\ raised' = "RuntimeError"
             /\ UNCHANGED <<row, col, direction, queue>>
        ELSE IF maze[n[1] + 1][n[2] + 1] = "#"
        THEN /\ raised' = "RuntimeError"
             /\ UNCHANGED <<row, col, direction, queue>>
        ELSE /\ row' = n[1]
             /\ col' = n[2]
             /\ queue' = Append(queue, "move")
             /\ raised' = "none"
             /\ UNCHANGED direction

py_turn_left ==
    /\ direction' = (direction - 1) % 4
    /\ queue' = Append(queue, "turnLeft")
    /\ raised' = "none"
    /\ UNCHANGED <<row, col>>

py_turn_right ==
    /\ direction' = (direction + 1) % 4
    /\ queue' = Append(queue, "turnRight")
    /\ raised' = "none"
    /\ UNCHANGED <<row, col>>

-----
(* Inputs: mazes and programs.                                             *)

\* Loaded grids (equal-width rows, one S, one G).
Corridor == << <<"S", " ", " ", "G">> >>

DeadEnd == << <<"S", " ", " ", "#", "G">> >>

Turn == << <<"#", "#", "#">>, <<"#", "S", "#">>, <<"#", "G", "#">>, <<"#", "#", "#">> >>

Room == << <<" ", " ", "#">>, <<" ", "S", " ">>, <<" ", " ", "G">> >>

Next1 == << <<"S", "G">> >>

\* A corridor from S one cell to the right and then down to G.
Bend ==
    << <<"#", "#", "#", "#">>, <<"#", "S", " ", "#">>, <<"#", "#", "G", "#">>,
       <<"#", "#", "#", "#">> >>

\* A corridor from S one cell to the right and then up to G.
LeftBend ==
    << <<"#", "#", "#", "#">>, <<"#", "#", "G", "#">>, <<"#", "S", " ", "#">>,
       <<"#", "#", "#", "#">> >>

Mazes == {Corridor, DeadEnd, Turn, Room, Next1, Bend, LeftBend}

\* Statements and conditions of the allowed vocabulary.
Move == Expr(Call(Name("move"), <<>>))

TurnLeft == Expr(Call(Name("turn_left"), <<>>))

TurnRight == Expr(Call(Name("turn_right"), <<>>))

True == Constant("bool", 1)

False == Constant("bool", 0)

Num(n) == Constant("int", n)

Pred(fname) == Call(Name(fname), <<>>)

Not(e) == UnaryOp("Not", e)

Range1(n) == Call(Name("range"), <<Num(n)>>)

Range2(a, b) == Call(Name("range"), <<a, b>>)

Actions == {Move, TurnLeft, TurnRight}

Conds ==
    {True, False, Pred("at_goal"), Pred("path_ahead"),
     Not(Pred("at_goal")),
     BoolOp("And", <<Pred("path_ahead"), Not(Pred("at_goal"))>>),
     BoolOp("Or", <<Pred("path_left"), Pred("path_right")>>),
     Compare(Pred("path_ahead"), <<"Eq">>, <<True>>),
     Compare(Pred("at_goal"), <<"NotEq">>, <<True>>)}

\* Straight-line programs of one to three actions, and one long enough to
\* pass the ceiling.
Straight ==
    {<<a>> : a \in Actions}
    \cup {<<a, b>> : a \in Actions, b \in Actions}
    \cup {<<a, b, c>> : a \in {Move}, b \in Actions, c \in Actions}
    \cup {[i \in 1 .. MAX_ACTIONS + 2 |-> a] : a \in {Move, TurnLeft}}

IfProgs ==
    {<<If(c, <<Move>>, e), Move>> : c \in Conds, e \in {<<>>, <<TurnRight>>}}

WhileProgs ==
    {<<While(c, <<Move>>, e)>> : c \in Conds, e \in {<<>>, <<TurnRight>>}}
    \cup {<<While(c, b, <<>>)>> \o t :
              c \in {True, Pred("path_ahead")}, b \in {<<TurnLeft>>, <<Pass>>},
              t \in {<<>>, <<Move>>}}

ForProgs ==
    {<<For(Name("_"), Range1(n), <<a>>, <<>>)>> :
        n \in 0 .. MAX_ACTIONS + 2, a \in {Move, TurnLeft}}
    \cup {<<For(Name("_"), Range1(n), <<Move>>, <<>>), Move>> : n \in {1, MAX_ACTIONS + 2}}
    \cup {<<For(Name("i"), Range2(a, b), <<Move>>, <<>>)>> :
              a \in {Num(1), UnaryOp("USub", Num(1))}, b \in {Num(0), Num(2), True}}

\* if A: move() elif B: turn_left() else: turn_right()
Elif(A, B) ==
    <<If(A, <<Move>>, <<If(B, <<TurnLeft>>, <<TurnRight>>)>>)>>

\* if A: move() else: (if B: turn_left() else: turn_right()); move()
ElseIf(A, B) ==
    <<If(A, <<Move>>, <<If(B, <<TurnLeft>>, <<TurnRight>>), Move>>)>>

WallFollower ==
    <<While(Not(Pred("at_goal")),
            <<If(Pred("path_ahead"), <<Move>>, <<TurnRight>>)>>, <<>>)>>

Nested ==
    {Elif(A, B) : A \in {True, False}, B \in {True, False}}
    \cup {ElseIf(A, B) : A \in {True, False}, B \in {True, False}}
    \cup {WallFollower,
          <<While(True, <<For(Name("_"), Range1(2), <<Move>>, <<>>)>>, <<TurnLeft>>), TurnLeft>>,
          <<For(Name("_"), Range1(2), <<While(True, <<Move>>, <<TurnLeft>>)>>, <<>>), TurnLeft>>,
          <<While(True, <<If(True, <<Move, Move>>, <<>>)>>, <<>>)>>,
          <<If(True, <<While(True, <<TurnLeft>>, <<>>)>>, <<>>)>>,
          <<While(True, <<If(False, <<Move>>, <<>>)>>, <<>>)>>,
          <<If(False, <<Pass>>, <<Move, If(True, <<Move>>, <<>>), TurnLeft>>)>>,
          <<If(Num(1), <<Move>>, <<>>)>>,
          <<If(Compare(Num(1), <<"Eq">>, <<Num(1)>>), <<Move>>, <<>>)>>,
          <<Move, While(Compare(Num(0), <<"NotEq">>, <<Num(1)>>), <<Move>>, <<>>)>>}

\* Programs with a node outside the allowed vocabulary.
Disallowed ==
    {<<Move, Assign(<<Name("x")>>, Num(1))>>,
     <<Move, Import>>,
     <<Move, Expr(Attribute(Name("x"), "y"))>>,
     <<Move, If(Compare(Num(1), <<"Eq", "Eq">>, <<Num(1), Num(1)>>), <<Pass>>, <<>>)>>,
     <<Move, Expr(Pred("at_goal"))>>,
     <<Move, Expr(Call(Name("jump"), <<>>))>>,
     <<Move, Expr(Call(Name("move"), <<Num(1)>>))>>,
     <<Move, If(Pred("move"), <<Pass>>, <<>>)>>,
     <<Move, If(Range1(1), <<Pass>>, <<>>)>>,
     <<Move, For(Name("_"), Call(Name("range"), <<Name("x")>>), <<Pass>>, <<>>)>>,
     <<Move, For(Name("_"), Call(Name("range"), <<Num(1), Num(2), Num(1)>>), <<Pass>>, <<>>)>>,
     <<Move, Expr(Name("x"))>>}

\* if A and/or B [and/or C]: move() else: turn_right(), with an operand
\* (the int 1) that eval_expr raises on.
ShortCircuit ==
    {<<If(BoolOp(op, v), <<Move>>, <<TurnRight>>)>> :
        op \in {"And", "Or"},
        v \in {<<False, Num(1)>>, <<True, Num(1)>>, <<Pred("path_ahead"), Num(1)>>,
               <<Num(1), True>>, <<True, False, Num(1)>>, <<False, True, Num(1)>>}}
    \cup {<<While(BoolOp("Or", <<Not(Pred("path_ahead")), Num(1)>>), <<TurnRight>>, <<>>)>>}

Programs ==
    Straight \cup IfProgs \cup WhileProgs \cup ForProgs \cup Nested \cup Disallowed
        \cup ShortCircuit

\* The source texts a user may submit.
Sources == Programs \cup {Unparsable}

-----------------------------------------------------------------------------
(* The engine after MazeEngine(maze_str): load_maze_from_string, reset.    *)

\* No run came before.
NoRun == [gen |-> "none"]

\* The other hosts before anything has run.
ExtInit ==
    /\ prev = NoRun
    /\ locals = <<>>
    /\ after = <<>>
    /\ runs = 0
    /\ owner = 0
    /\ run_btn = "normal"
    /\ maze_str = <<>>
    /\ steps = 0
    /\ trace_set = FALSE
    /\ f_lineno = 0
    /\ executed = 0
    /\ elapsed = 0
    /\ exec_state = "none"
    /\ queue_mark = 0
    /\ iter_mark = 0

Init ==
    /\ maze \in Mazes
    /\ action_count = 0
    /\ running = TRUE
    /\ dir = 1
    /\ pos = maze_start
    /\ log = <<>>
    /\ code = <<>>
    /\ gen = "none"
    /\ stack = <<>>
    /\ broke = FALSE
    /\ raised = "none"
    /\ timers = 0
    /\ row = JS_MAZE_START_ROW
    /\ col = JS_MAZE_START_COL
    /\ direction = 1
    /\ queue = <<>>
    /\ who = "engine"
    /\ trail = <<>>
    /\ ExtInit

\* The host keeps in trail the steps of the run it drives: one entry for
\* each next(code_iter) that returned, with the action performed, the pose
\* it left and the messages it logged.  A run starts with none.
StepEvent ==
    [op |-> line.value.func.id, pos |-> pos', dir |-> dir',
     log |-> SubSeq(log', Len(log) + 1, Len(log'))]

Compile ==
    /\ \E body \in Sources :
          /\ compile_user_code(body)
          /\ trail' = IF compiles(body) THEN <<>> ELSE trail
    /\ UNCHANGED <<timers, apiVars, who, extVars>>

Resume == resume /\ UNCHANGED <<timers, apiVars, hostVars, extVars>>

ExecBlock ==
    /\ exec_block
    /\ trail' = IF gen' = "suspended" THEN Append(trail, StepEvent) ELSE trail
    /\ UNCHANGED <<timers, apiVars, who, extVars>>

ExecWhile == exec_while /\ UNCHANGED <<timers, apiVars, hostVars, extVars>>

ExecFor == exec_for /\ UNCHANGED <<timers, apiVars, hostVars, extVars>>

\* A step of the live run: the host's next(), or the generator running.
RunStep == Resume \/ ExecBlock \/ ExecWhile \/ ExecFor

Next == Compile \/ Resume \/ ExecBlock \/ ExecWhile \/ ExecFor

Spec == Init /\ [][Next]_vars

\* One run, resumed by the host until the generator ends: the host's timer
\* keeps calling next(), and a running generator keeps running.
FirstCompile == gen = "none" /\ Compile

OneRunNext == FirstCompile \/ Resume \/ ExecBlock \/ ExecWhile \/ ExecFor

LiveSpec == Init /\ [][OneRunNext]_vars /\ WF_vars(RunStep)

\* The host compiles the same source again, at any point of the run or
\* after it; prev keeps what the host saw of the run it leaves.
Recompile ==
    /\ gen \in {"suspended", "done", "faulted"}
    /\ compile_user_code(code)
    /\ prev' = [gen |-> gen, code |-> code, trail |-> trail, pos |-> pos, dir |-> dir,
                action_count |-> action_count, running |-> running, log |-> log,
                raised |-> raised]
    /\ trail' = <<>>
    /\ UNCHANGED <<timers, apiVars, who, locals, after, runs, owner, run_btn, maze_str,
                   pyVars, markVars>>

ReplayNext == FirstCompile \/ Recompile \/ Resume \/ ExecBlock \/ ExecWhile \/ ExecFor

ReplaySpec == Init /\ [][ReplayNext]_vars

-----------------------------------------------------------------------------
(* The actions called directly, outside any program: the host calls the    *)
(* do_* methods of the engine, or the functions of maze_api.  trail keeps  *)
(* each call with the pose it started from.                                *)

\* The number of direct calls of one behaviour.
MaxCalls == 7

Called(op, p, d) == Append(trail, [op |-> op, pos |-> p, dir |-> d])

\* One of the engine's actions, called on its own.
engine_call(op, r) ==
    /\ who = "engine"
    /\ Len(trail) < MaxCalls
    /\ pos' = r.pos
    /\ dir' = r.dir
    /\ running' = r.running
    /\ log' = log \o r.log
    /\ raised' = "none"
    /\ trail' = Called(op, pos, dir)
    /\ UNCHANGED <<maze, action_count, code, gen, stack, broke, timers, apiVars, who, extVars>>

EngineMove == engine_call("move", do_move)

EngineTurnLeft == engine_call("turn_left", do_turn_left)

EngineTurnRight == engine_call("turn_right", do_turn_right)

\* One of the functions of maze_api, called on its own.
api_call(op, A) ==
    /\ who = "api"
    /\ exec_state = "none"
    /\ Len(trail) < MaxCalls
    /\ A
    /\ trail' = Called(op, <<row, col>>, direction)
    /\ UNCHANGED <<maze, pos, dir, action_count, running, log, code, gen, stack,
                   broke, timers, who, extVars>>

ApiMove == api_call("move", api_move)

ApiTurnLeft == api_call("turn_left", api_turn_left)

ApiTurnRight == api_call("turn_right", api_turn_right)

\* One of the functions of maze.py, called on its own.
py_call(op, A) ==
    /\ who = "py"
    /\ Len(trail) < MaxCalls
    /\ A
    /\ trail' = Called(op, <<row, col>>, direction)
    /\ UNCHANGED <<maze, pos, dir, action_count, running, log, code, gen, stack,
                   broke, timers, who, extVars>>

PyMove == py_call("move", py_move)

PyTurnLeft == py_call("turn_left", py_turn_left)

PyTurnRight == py_call("turn_right", py_turn_right)

\* The host calls reset_state of maze.py; its queue keeps what it holds.
PyResetState ==
    /\ who = "py"
    /\ Len(trail) < MaxCalls
    /\ reset_state
    /\ raised' = "none"
    /\ queue_mark' = Len(queue)
    /\ trail' = Called("reset_state", <<row, col>>, direction)
    /\ UNCHANGED <<maze, pos, dir, action_count, running, log, code, gen, stack, broke,
                   timers, queue, who, prev, locals, after, runs, owner, run_btn, maze_str,
                   pyVars, iter_mark>>

InitTurn ==
    /\ maze \in Mazes
    /\ action_count = 0
    /\ running = TRUE
    /\ dir = 1
    /\ pos = maze_start
    /\ log = <<>>
    /\ code = <<>>
    /\ gen = "none"
    /\ stack = <<>>
    /\ broke = FALSE
    /\ raised = "none"
    /\ timers = 0
    /\ row = JS_MAZE_START_ROW
    /\ col = JS_MAZE_START_COL
    /\ direction = 1
    /\ queue = <<>>
    /\ who \in {"engine", "api", "py"}
    /\ trail = <<>>
    /\ ExtInit

NextTurn ==
    \/ EngineMove \/ EngineTurnLeft \/ EngineTurnRight
    \/ ApiMove \/ ApiTurnLeft \/ ApiTurnRight
    \/ PyMove \/ PyTurnLeft \/ PyTurnRight \/ PyResetState

TurnSpec == InitTurn /\ [][NextTurn]_vars

-----------------------------------------------------------------------------
(* maze_api.py: follow_right_wall(max_steps), called by the host after any *)
(* direct calls.  f_lineno is the line of the function about to execute,   *)
(* steps its local variable.  JS_MAZE_GOAL_ROW and JS_MAZE_GOAL_COL are    *)
(* globals of the JavaScript host, modelled on the goal of the maze.       *)

\* The argument max_steps of the call.
fr_max_steps == 3

\* One line of follow_right_wall, from `steps = 0` to `steps += 1`; a move()
\* that raises ends the call.
follow_right_wall ==
    LET ahead == step_forward(row, col, direction)
        right == step_forward(row, col, (direction + 1) % 4)
        api_at_goal == row = maze_goal[1] /\ col = maze_goal[2]
        api_path_ahead == ~js_is_wall(ahead[1], ahead[2])
        api_path_right == ~js_is_wall(right[1], right[2])
        goto(l) == f_lineno' = l /\ UNCHANGED <<exec_state, steps, iter_mark>>
        called_move ==
            /\ api_move
            /\ IF js_is_wall(ahead[1], ahead[2])
               THEN f_lineno' = 0 /\ exec_state' = "raised"
               ELSE f_lineno' = 177 /\ UNCHANGED exec_state
            /\ UNCHANGED <<steps, iter_mark>>
    IN  /\ exec_state = "running"
        /\ CASE f_lineno = 168 ->
                    /\ steps' = 0
                    /\ f_lineno' = 169
                    /\ UNCHANGED <<apiVars, raised, exec_state, iter_mark>>
             [] f_lineno = 169 ->
                    /\ IF ~api_at_goal /\ steps < fr_max_steps
                       THEN f_lineno' = 170 /\ UNCHANGED exec_state
                       ELSE f_lineno' = 0 /\ exec_state' = "returned"
                    /\ iter_mark' = Len(queue)
                    /\ UNCHANGED <<apiVars, raised, steps>>
             [] f_lineno = 170 ->
                    /\ goto(IF api_path_right THEN 171 ELSE 173)
                    /\ UNCHANGED <<apiVars, raised>>
             [] f_lineno = 171 -> api_turn_right /\ goto(172)
             [] f_lineno = 172 -> called_move
             [] f_lineno = 173 ->
                    /\ goto(IF api_path_ahead THEN 174 ELSE 176)
                    /\ UNCHANGED <<apiVars, raised>>
             [] f_lineno = 174 -> called_move
             [] f_lineno = 176 -> api_turn_left /\ goto(177)
             [] f_lineno = 177 ->
                    /\ steps' = steps + 1
                    /\ f_lineno' = 169
                    /\ UNCHANGED <<apiVars, raised, exec_state, iter_mark>>

\* What follow_right_wall leaves alone.
notFollow ==
    <<maze, pos, dir, action_count, running, log, code, gen, stack, broke, timers, who, trail,
      prev, locals, after, runs, owner, run_btn, maze_str, trace_set, executed, elapsed,
      queue_mark>>

InitFollow ==
    /\ maze \in Mazes
    /\ action_count = 0
    /\ running = TRUE
    /\ dir = 1
    /\ pos = maze_start
    /\ log = <<>>
    /\ code = <<>>
    /\ gen = "none"
    /\ stack = <<>>
    /\ broke = FALSE
    /\ raised = "none"
    /\ timers = 0
    /\ row = JS_MAZE_START_ROW
    /\ col = JS_MAZE_START_COL
    /\ direction = 1
    /\ queue = <<>>
    /\ who = "api"
    /\ trail = <<>>
    /\ ExtInit

\* The host calls follow_right_wall(fr_max_steps).
FollowCall ==
    /\ who = "api"
    /\ exec_state = "none"
    /\ exec_state' = "running"
    /\ f_lineno' = 168
    /\ raised' = "none"
    /\ iter_mark' = Len(queue)
    /\ UNCHANGED <<apiVars, steps, notFollow>>

FollowLine == follow_right_wall /\ UNCHANGED notFollow

NextFollow == ApiMove \/ ApiTurnLeft \/ ApiTurnRight \/ FollowCall \/ FollowLine

FollowSpec == InitFollow /\ [][NextFollow]_vars

-----------------------------------------------------------------------------
(* game.py: the Tk game MazeGame.  It keeps the engine's fields (maze,     *)
(* pos, dir, action_count, running) and its own validator, evaluator and   *)
(* executor; self.generator is gen and stack, as for the engine.  The      *)
(* evaluator's values are Python ints and bools: a bool is held as 0/1.    *)

\* The step_runner callbacks that may be pending at once.
MaxTimers == 2

DEFAULT_MAZE ==
    << <<"#", "#", "#", "#", "#", "#", "#", "#", "#", "#", "#">>,
       <<"#", "S", " ", " ", " ", "#", " ", " ", " ", " ", "#">>,
       <<"#", " ", "#", "#", " ", "#", " ", "#", "#", " ", "#">>,
       <<"#", " ", " ", " ", " ", "#", " ", " ", " ", " ", "#">>,
       <<"#", "#", "#", "#", " ", "#", "#", "#", " ", "#", "#">>,
       <<"#", " ", " ", " ", " ", " ", " ", "#", " ", " ", "#">>,
       <<"#", " ", "#", "#", "#", "#", " ", "#", " ", " ", "#">>,
       <<"#", " ", "#", " ", " ", " ", " ", "#", "#", " ", "#">>,
       <<"#", " ", "#", " ", "#", "#", " ", " ", " ", " ", "#">>,
       <<"#", " ", " ", " ", "#", "#", " ", " ", "G", " ", "#">>,
       <<"#", "#", "#", "#", "#", "#", "#", "#", "#", "#", "#">> >>

g_start == CHOOSE p \in Cells : cell(p[1], p[2]) = "S"

g_goal == CHOOSE p \in Cells : cell(p[1], p[2]) = "G"

g_in_bounds(r, c) == 0 <= r /\ r < Len(maze) /\ 0 <= c /\ c < Len(maze[1])

g_is_wall(r, c) == IF ~g_in_bounds(r, c) THEN TRUE ELSE cell(r, c) = "#"

g_forward_delta(d) ==
    IF d = 0 THEN <<-1, 0>>
    ELSE IF d = 1 THEN <<0, 1>>
    ELSE IF d = 2 THEN <<1, 0>>
    ELSE <<0, -1>>

g_left_dir == (dir - 1) % 4

g_right_dir == (dir + 1) % 4

g_path(d) == LET v == g_forward_delta(d) IN ~g_is_wall(pos[1] + v[1], pos[2] + v[2])

g_path_ahead == g_path(dir)

g_path_left == g_path(g_left_dir)

g_path_right == g_path(g_right_dir)

g_at_goal == pos = g_goal

\* getattr(self, fname)() for fname in COND_FUNCS, as 0/1
g_predicate(fname) ==
    LET b == CASE fname = "at_goal"    -> g_at_goal
               [] fname = "path_ahead" -> g_path_ahead
               [] fname = "path_left"  -> g_path_left
               [] fname = "path_right" -> g_path_right
    IN  IF b THEN 1 ELSE 0

g_do_turn_left == [pos |-> pos, dir |-> g_left_dir, running |-> running, log |-> <<>>]

g_do_turn_right == [pos |-> pos, dir |-> g_right_dir, running |-> running, log |-> <<>>]

g_do_move ==
    IF g_path_ahead
    THEN LET v == g_forward_delta(dir)
             p == <<pos[1] + v[1], pos[2] + v[2]>>
         IN  IF p = g_goal
             THEN [pos |-> p, dir |-> dir, running |-> FALSE,
                   log |-> <<"Reached the goal!">>]
             ELSE [pos |-> p, dir |-> dir, running |-> running, log |-> <<>>]
    ELSE [pos |-> pos, dir |-> dir, running |-> running,
          log |-> <<"Bumped into a wall.">>]

\* validate_ast: TRUE iff the check returns without raising CodeError.
is_small_int(n) ==
    n.k = "Constant" /\ n.ty \in {"int", "bool"} /\ 0 <= n.value /\ n.value <= 1000

RECURSIVE check_expr(_)
check_expr(n) ==
    IF n.k = "Call" THEN
        IF n.func.k # "Name" THEN FALSE
        ELSE IF n.func.id \in COND_FUNCS THEN n.keywords = <<>> /\ n.args = <<>>
        ELSE IF n.func.id \in ACTION_FUNCS THEN n.keywords = <<>> /\ n.args = <<>>
        ELSE IF n.func.id = "range" THEN
            /\ Len(n.args) \in {1, 2}
            /\ n.keywords = <<>>
            /\ \A i \in DOMAIN n.args : is_small_int(n.args[i])
        ELSE FALSE
    ELSE IF n.k = "UnaryOp" /\ n.op = "Not" THEN check_expr(n.operand)
    ELSE IF n.k = "BoolOp" /\ n.op \in {"And", "Or"} THEN
        \A i \in DOMAIN n.values : check_expr(n.values[i])
    ELSE IF n.k = "Constant" THEN n.ty \in {"bool", "int"}
    ELSE IF n.k = "Compare" THEN
        IF Len(n.ops) # 1 THEN FALSE
        ELSE IF n.ops[1] \notin {"Eq", "NotEq"} THEN FALSE
        ELSE IF Len(n.comparators) # 1 THEN FALSE
        ELSE check_expr(n.left) /\ check_expr(n.comparators[1])
    ELSE FALSE

RECURSIVE check_stmt(_)
check_stmt(s) ==
    IF s.k = "Expr" THEN
        IF s.value.k # "Call" THEN FALSE
        ELSE IF s.value.func.k # "Name" THEN FALSE
        ELSE IF s.value.func.id \notin ACTION_FUNCS THEN FALSE
        ELSE s.value.args = <<>> /\ s.value.keywords = <<>>
    ELSE IF s.k \in {"If", "While"} THEN
        /\ check_expr(s.test)
        /\ (\A i \in DOMAIN s.body : check_stmt(s.body[i]))
        /\ (\A j \in DOMAIN s.orelse : check_stmt(s.orelse[j]))
    ELSE IF s.k = "For" THEN
        IF s.target.k # "Name" THEN FALSE
        ELSE IF ~(s.iter.k = "Call" /\ s.iter.func.k = "Name" /\ s.iter.func.id = "range")
        THEN FALSE
        ELSE IF s.iter.keywords # <<>> \/ Len(s.iter.args) \notin {1, 2} THEN FALSE
        ELSE /\ (\A i \in DOMAIN s.iter.args : is_small_int(s.iter.args[i]))
             /\ (\A j \in DOMAIN s.body : check_stmt(s.body[j]))
             /\ (\A m \in DOMAIN s.orelse : check_stmt(s.orelse[m]))
    ELSE s.k = "Pass"

validate_ast(node) ==
    IF node.k # "Module" THEN FALSE
    ELSE \A i \in DOMAIN node.body : check_stmt(node.body[i])

\* eval_expr of game.py: [ok, v], ok = FALSE when it raises CodeError.
g_Raise == [ok |-> FALSE, v |-> 0]

g_Return(v) == [ok |-> TRUE, v |-> v]

RECURSIVE g_eval_expr(_)
RECURSIVE g_eval_and(_, _, _)
RECURSIVE g_eval_or(_, _, _)

\* for v in n.values: val = bool(val and eval_expr(v)); if not val: break
g_eval_and(values, i, val) ==
    IF i > Len(values) THEN g_Return(val)
    ELSE IF val = 0 THEN g_Return(0)
    ELSE LET r == g_eval_expr(values[i])
         IN  IF ~r.ok THEN g_Raise
             ELSE IF r.v = 0 THEN g_Return(0)
             ELSE g_eval_and(values, i + 1, 1)

\* for v in n.values: val = bool(val or eval_expr(v)); if val: break
g_eval_or(values, i, val) ==
    IF i > Len(values) THEN g_Return(val)
    ELSE IF val = 1 THEN g_Return(1)
    ELSE LET r == g_eval_expr(values[i])
         IN  IF ~r.ok THEN g_Raise
             ELSE IF r.v # 0 THEN g_Return(1)
             ELSE g_eval_or(values, i + 1, 0)

g_eval_expr(n) ==
    IF n.k = "Call" /\ n.func.k = "Name" THEN
        IF n.func.id \in COND_FUNCS THEN g_Return(g_predicate(n.func.id))
        ELSE g_Raise
    ELSE IF n.k = "UnaryOp" /\ n.op = "Not" THEN
        LET r == g_eval_expr(n.operand)
        IN  IF ~r.ok THEN g_Raise ELSE g_Return(IF r.v = 0 THEN 1 ELSE 0)
    ELSE IF n.k = "BoolOp" THEN
        IF n.op = "And" THEN g_eval_and(n.values, 1, 1)
        ELSE IF n.op = "Or" THEN g_eval_or(n.values, 1, 0)
        ELSE g_Raise
    ELSE IF n.k = "Constant" THEN
        IF n.ty \in {"bool", "int"} THEN g_Return(n.value) ELSE g_Raise
    ELSE IF n.k = "Compare" THEN
        IF Len(n.ops) = 1 /\ Len(n.comparators) = 1 THEN
            LET left == g_eval_expr(n.left)
                right == g_eval_expr(n.comparators[1])
            IN  IF ~left.ok \/ ~right.ok THEN g_Raise
                ELSE IF n.ops[1] = "Eq" THEN g_Return(IF left.v = right.v THEN 1 ELSE 0)
                ELSE IF n.ops[1] = "NotEq" THEN g_Return(IF left.v # right.v THEN 1 ELSE 0)
                ELSE g_Raise
        ELSE g_Raise
    ELSE g_Raise

\* The generator of game.py returns: when it was the outermost, next()
\* raises StopIteration and step_runner clears running.
g_Returns(st, run) ==
    /\ stack' = st
    /\ gen' = IF st = <<>> THEN "done" ELSE "executing"
    /\ running' = IF st = <<>> THEN FALSE ELSE run

\* CodeError leaves the generator and step_runner.
g_Raises ==
    /\ stack' = <<>>
    /\ gen' = "faulted"
    /\ raised' = "CodeError"
    /\ UNCHANGED <<maze, pos, dir, action_count, running, log, code, broke, timers>>

g_StoppedMsg == "Program stopped: exceeded MAX_ACTIONS actions (possible infinite loop)."

\* One statement of the for loop of game.py's exec_block.  At a yield
\* step_runner goes on: it schedules itself again if still running.
g_exec_block ==
    /\ gen = "executing"
    /\ top.k = "block"
    /\ IF top.i > Len(top.stmts) THEN
           /\ g_Returns(rest, running)
           /\ UNCHANGED <<maze, pos, dir, action_count, log, code, broke, raised, timers>>
       ELSE IF action_count > MAX_ACTIONS THEN
           /\ log' = Append(log, g_StoppedMsg)
           /\ g_Returns(rest, FALSE)
           /\ UNCHANGED <<maze, pos, dir, action_count, code, broke, raised, timers>>
       ELSE IF line.k = "Expr" /\ line.value.k = "Call" THEN
           LET fname == line.value.func.id
           IN  IF fname \in ACTION_FUNCS THEN
                   LET r == CASE fname = "move"       -> g_do_move
                              [] fname = "turn_left"  -> g_do_turn_left
                              [] fname = "turn_right" -> g_do_turn_right
                   IN  /\ pos' = r.pos
                       /\ dir' = r.dir
                       /\ running' = r.running
                       /\ log' = log \o r.log
                       /\ action_count' = action_count + 1
                       /\ gen' = "suspended"
                       /\ stack' = advanced
                       /\ timers' = IF r.running THEN timers + 1 ELSE timers
                       /\ UNCHANGED <<maze, code, broke, raised>>
               ELSE g_Raises
       ELSE IF line.k = "If" THEN
           LET t == g_eval_expr(line.test)
           IN  IF ~t.ok THEN g_Raises
               ELSE /\ stack' = Append(advanced,
                                       BlockFrame(IF t.v # 0 THEN line.body ELSE line.orelse))
                    /\ UNCHANGED <<maze, pos, dir, action_count, running, log, code, gen,
                                   broke, raised, timers>>
       ELSE IF line.k = "While" THEN
           /\ stack' = Append(advanced, WhileFrame(line))
           /\ UNCHANGED <<maze, pos, dir, action_count, running, log, code, gen,
                          broke, raised, timers>>
       ELSE IF line.k = "For" THEN
           LET args == line.iter.args
               start == IF Len(args) = 1 THEN 0 ELSE args[1].value
               stop == IF Len(args) = 1 THEN args[1].value ELSE args[2].value
           IN  /\ stack' = Append(advanced, ForFrame(line, start, stop))
               /\ UNCHANGED <<maze, pos, dir, action_count, running, log, code, gen,
                              broke, raised, timers>>
       ELSE IF line.k = "Pass" THEN
           /\ stack' = advanced
           /\ UNCHANGED <<maze, pos, dir, action_count, running, log, code, gen,
                          broke, raised, timers>>
       ELSE g_Raises

\* The else clause of game.py's while loop: it runs when the loop is left
\* with running set and the test, evaluated again, false.
g_while_orelse(node) ==
    IF node.orelse # <<>> /\ running THEN
        LET t == g_eval_expr(node.test)
        IN  IF ~t.ok THEN g_Raises
            ELSE IF t.v = 0 THEN
                /\ stack' = Append(rest, BlockFrame(node.orelse))
                /\ UNCHANGED <<maze, pos, dir, action_count, running, log, code, gen,
                               broke, raised, timers>>
            ELSE
                /\ g_Returns(rest, running)
                /\ UNCHANGED <<maze, pos, dir, action_count, log, code, broke, raised, timers>>
    ELSE
        /\ g_Returns(rest, running)
        /\ UNCHANGED <<maze, pos, dir, action_count, log, code, broke, raised, timers>>

\* The while loop of game.py's exec_block.
g_exec_while ==
    /\ gen = "executing"
    /\ top.k = "while"
    /\ IF top.ph = "test" THEN
           IF ~running THEN g_while_orelse(top.node)
           ELSE LET t == g_eval_expr(top.node.test)
                IN  IF ~t.ok THEN g_Raises
                    ELSE IF t.v # 0 THEN
                        /\ stack' = Append(Append(rest, [top EXCEPT !.ph = "after"]),
                                           BlockFrame(top.node.body))
                        /\ UNCHANGED <<maze, pos, dir, action_count, running, log, code, gen,
                                       broke, raised, timers>>
                    ELSE g_while_orelse(top.node)
       ELSE IF action_count > MAX_ACTIONS THEN g_while_orelse(top.node)
       ELSE
           /\ stack' = Append(rest, [top EXCEPT !.ph = "test"])
           /\ UNCHANGED <<maze, pos, dir, action_count, running, log, code, gen,
                          broke, raised, timers>>

\* The for loop of game.py's exec_block.
g_exec_for ==
    /\ gen = "executing"
    /\ top.k = "for"
    /\ IF top.ph = "top" THEN
           IF top.i >= top.stop THEN
               /\ g_Returns(rest, running)
               /\ UNCHANGED <<maze, pos, dir, action_count, log, code, broke, raised, timers>>
           ELSE
               /\ stack' = Append(Append(rest, [top EXCEPT !.i = top.i + 1, !.ph = "after"]),
                                  BlockFrame(top.node.body))
               /\ UNCHANGED <<maze, pos, dir, action_count, running, log, code, gen,
                              broke, raised, timers>>
       ELSE IF action_count > MAX_ACTIONS THEN
           /\ g_Returns(rest, running)
           /\ UNCHANGED <<maze, pos, dir, action_count, log, code, broke, raised, timers>>
       ELSE
           /\ stack' = Append(rest, [top EXCEPT !.ph = "top"])
           /\ UNCHANGED <<maze, pos, dir, action_count, running, log, code, gen,
                          broke, raised, timers>>

\* reset() of game.py: the fields it assigns.
g_reset ==
    /\ log' = <<>>
    /\ action_count' = 0
    /\ running' = FALSE
    /\ dir' = 1
    /\ pos' = g_start

\* The Reset button.
reset_clicked ==
    /\ gen # "executing"
    /\ g_reset
    /\ UNCHANGED <<maze, code, gen, stack, broke, raised, timers>>

\* run_clicked on the body of the parsed program text.
run_clicked(body) ==
    /\ gen # "executing"
    /\ ~running
    /\ timers < MaxTimers
    /\ IF body = Unparsable
       THEN /\ log' = <<"Syntax error">>
            /\ UNCHANGED <<maze, pos, dir, action_count, running, code, gen, stack,
                           broke, raised, timers>>
       ELSE IF validate_ast(Module(body))
       THEN /\ action_count' = 0
            /\ dir' = 1
            /\ pos' = g_start
            /\ running' = TRUE
            /\ log' = <<>>
            /\ code' = body
            /\ gen' = "suspended"
            /\ stack' = <<BlockFrame(body)>>
            /\ timers' = timers + 1
            /\ raised' = "none"
            /\ UNCHANGED <<maze, broke>>
       ELSE /\ log' = <<"Unsupported code">>
            /\ UNCHANGED <<maze, pos, dir, action_count, running, code, gen, stack,
                           broke, raised, timers>>

\* A pending step_runner callback fires, up to its next(self.generator).
step_runner ==
    /\ gen # "executing"
    /\ timers > 0
    /\ timers' = timers - 1
    /\ IF ~running THEN
           UNCHANGED <<maze, pos, dir, action_count, running, log, code, gen, stack,
                       broke, raised>>
       ELSE IF gen = "suspended" THEN
           /\ gen' = "executing"
           /\ UNCHANGED <<maze, pos, dir, action_count, running, log, code, stack,
                          broke, raised>>
       ELSE
           /\ running' = FALSE
           /\ UNCHANGED <<maze, pos, dir, action_count, log, code, gen, stack,
                          broke, raised>>

InitGame ==
    /\ maze = DEFAULT_MAZE
    /\ action_count = 0
    /\ running = FALSE
    /\ dir = 1
    /\ pos = g_start
    /\ log = <<>>
    /\ code = <<>>
    /\ gen = "none"
    /\ stack = <<>>
    /\ broke = FALSE
    /\ raised = "none"
    /\ timers = 0
    /\ row = JS_MAZE_START_ROW
    /\ col = JS_MAZE_START_COL
    /\ direction = 1
    /\ queue = <<>>
    /\ who = "game"
    /\ trail = <<>>
    /\ ExtInit

RunClicked ==
    /\ \E body \in Sources : run_clicked(body)
    /\ UNCHANGED <<apiVars, hostVars, extVars>>

ResetClicked == reset_clicked /\ UNCHANGED <<apiVars, hostVars, extVars>>

StepRunner == step_runner /\ UNCHANGED <<apiVars, hostVars, extVars>>

GameExecBlock == g_exec_block /\ UNCHANGED <<apiVars, hostVars, extVars>>

GameExecWhile == g_exec_while /\ UNCHANGED <<apiVars, hostVars, extVars>>

GameExecFor == g_exec_for /\ UNCHANGED <<apiVars, hostVars, extVars>>

NextGame ==
    \/ RunClicked \/ ResetClicked \/ StepRunner
    \/ GameExecBlock \/ GameExecWhile \/ GameExecFor

GameSpec == InitGame /\ [][NextGame]_vars

-----------------------------------------------------------------------------
(* The two hosts of a compile phase side by side: a session is either one  *)
(* of the engine or one of game.py.                                        *)

InitHosts == Init \/ InitGame

HostEngine == who = "engine" /\ Next

HostGame == who = "game" /\ NextGame

NextHosts == HostEngine \/ HostGame

HostsSpec == InitHosts /\ [][NextHosts]_vars

-----------------------------------------------------------------------------
(* main.py: the pygame host App with its Maze, Agent and SafeInterpreter.  *)
(* pos is <<agent.x, agent.y>>, dir is agent.dir, action_count is          *)
(* agent.actions, running is App.running and maze is App.maze.grid.  gen   *)
(* is "none" when App.gen is None and stack holds the frames of App.gen.   *)
(* code is the text in the editor, an input that stays the same for the    *)
(* session (the Sample button and typing are left out).  log is the last   *)
(* line of the Logger, and trail the steps of the live generator.  A value *)
(* of the interpreter is a Python int or bool, a bool held as 0/1.         *)

\* App.max_actions.  The source sets 2000 (src/main.py:629); the model
\* scales it down to a little more than the way to the goal takes.
max_actions == 45

\* The iterations one while statement may make.  The source has 20000
\* (src/main.py:319), ten times max_actions; the model scales it down and
\* keeps it above max_actions + 1.
LOOP_GUARD == 50

MAZES ==
    << << <<"#", "#", "#", "#", "#", "#", "#", "#", "#", "#", "#", "#", "#", "#">>,
          <<"#", "S", ".", ".", ".", ".", "#", ".", ".", ".", ".", ".", ".", "#">>,
          <<"#", "#", "#", ".", "#", ".", "#", ".", "#", "#", "#", "#", ".", "#">>,
          <<"#", ".", ".", ".", "#", ".", "#", ".", ".", ".", ".", "#", ".", "#">>,
          <<"#", ".", "#", "#", "#", ".", "#", "#", "#", "#", ".", "#", ".", "#">>,
          <<"#", ".", ".", ".", "#", ".", ".", ".", ".", ".", ".", "#", ".", "#">>,
          <<"#", ".", "#", ".", "#", "#", "#", "#", "#", "#", "#", "#", ".", "#">>,
          <<"#", ".", "#", ".", ".", ".", ".", ".", ".", ".", ".", "#", ".", "#">>,
          <<"#", ".", "#", "#", "#", "#", "#", "#", ".", "#", ".", "#", "G", "#">>,
          <<"#", "#", "#", "#", "#", "#", "#", "#", "#", "#", "#", "#", "#", "#">> >>,
       << <<"#", "#", "#", "#", "#", "#", "#", "#", "#", "#", "#", "#", "#", "#">>,
          <<"#", "S", ".", ".", ".", ".", ".", "#", ".", ".", ".", ".", ".", "#">>,
          <<"#", ".", "#", "#", "#", ".", ".", "#", ".", "#", "#", "#", ".", "#">>,
          <<"#", ".", ".", ".", "#", ".", ".", "#", ".", ".", ".", "#", ".", "#">>,
          <<"#", "#", "#", ".", "#", ".", ".", "#", "#", "#", ".", "#", ".", "#">>,
          <<"#", ".", ".", ".", "#", ".", ".", ".", ".", ".", ".", "#", ".", "#">>,
          <<"#", ".", "#", ".", "#", "#", "#", "#", "#", "#", "#", "#", ".", "#">>,
          <<"#", ".", "#", ".", ".", ".", ".", ".", ".", ".", ".", "#", ".", "#">>,
          <<"#", ".", "#", "#", "#", "#", "#", "#", ".", "#", ".", "#", "G", "#">>,
          <<"#", "#", "#", "#", "#", "#", "#", "#", "#", "#", "#", "#", "#", "#">> >> >>

main_DIRS == <<<<0, -1>>, <<1, 0>>, <<0, 1>>, <<-1, 0>>>>

Maze_h == Len(maze)

Maze_w == IF Maze_h # 0 THEN Len(maze[1]) ELSE 0

\* _find: the first cell holding ch, row by row, or <<>> for None.
Maze_find(ch) ==
    LET hits == {p \in (0 .. Maze_w - 1) \X (0 .. Maze_h - 1) : maze[p[2] + 1][p[1] + 1] = ch}
    IN  IF hits = {} THEN <<>>
        ELSE CHOOSE p \in hits :
                 \A q \in hits : p[2] < q[2] \/ (p[2] = q[2] /\ p[1] <= q[1])

Maze_start == IF Maze_find("S") # <<>> THEN Maze_find("S") ELSE <<1, 1>>

Maze_goal == IF Maze_find("G") # <<>> THEN Maze_find("G") ELSE <<Maze_w - 2, Maze_h - 2>>

Maze_in_bounds(x, y) == 0 <= x /\ x < Maze_w /\ 0 <= y /\ y < Maze_h

Maze_cell(x, y) == IF Maze_in_bounds(x, y) THEN maze[y + 1][x + 1] ELSE "#"

\* Agent.reset: the fields it assigns.
Agent_reset ==
    /\ pos' = Maze_start
    /\ dir' = 1
    /\ action_count' = 0

Agent_at_goal == pos = Maze_goal

Agent_peek(d) ==
    LET v == main_DIRS[(d % 4) + 1] IN <<pos[1] + v[1], pos[2] + v[2]>>

Agent_path_ahead == LET n == Agent_peek(dir) IN Maze_cell(n[1], n[2]) # "#"

Agent_path_left == LET n == Agent_peek(dir - 1) IN Maze_cell(n[1], n[2]) # "#"

Agent_path_right == LET n == Agent_peek(dir + 1) IN Maze_cell(n[1], n[2]) # "#"

\* The actions of the agent: the pose they leave; each adds 1 to actions.
Agent_turn_left == [pos |-> pos, dir |-> (dir - 1) % 4]

Agent_turn_right == [pos |-> pos, dir |-> (dir + 1) % 4]

Agent_move == [pos |-> IF Agent_path_ahead THEN Agent_peek(dir) ELSE pos, dir |-> dir]

\* App._api: the predicates and the actions by name.
App_api_pred(name) ==
    CASE name = "at_goal"    -> Agent_at_goal
      [] name = "path_ahead" -> Agent_path_ahead
      [] name = "path_left"  -> Agent_path_left
      [] name = "path_right" -> Agent_path_right

App_api_action(name) ==
    CASE name = "move"       -> Agent_move
      [] name = "turn_left"  -> Agent_turn_left
      [] name = "turn_right" -> Agent_turn_right

SafeInterpreter_ACTIONS == {"move", "turn_left", "turn_right"}

SafeInterpreter_PREDS == {"at_goal", "path_ahead", "path_left", "path_right"}

\* The node classes _ok lets through, and among them the operator classes.
OkNodes ==
    {"Module", "Expr", "Call", "If", "While", "Assign", "AugAssign", "Name",
     "Constant", "UnaryOp", "BinOp", "BoolOp", "Compare"}

OkOps ==
    {"UAdd", "USub", "Not", "Add", "Sub", "Mult", "Div", "FloorDiv", "Mod",
     "And", "Or", "Lt", "LtE", "Gt", "GtE", "Eq", "NotEq"}

\* The operator nodes among the children of a node.
OpNodes(n) ==
    CASE n.k \in {"UnaryOp", "BoolOp", "BinOp", "AugAssign"} -> {n.op}
      [] n.k = "Compare" -> {n.ops[i] : i \in DOMAIN n.ops}
      [] OTHER -> {}

RECURSIVE SafeInterpreter_ok(_)
\* TRUE iff _ok(node) returns without raising ValueError.
SafeInterpreter_ok(node) ==
    /\ node.k \in OkNodes
    /\ OpNodes(node) \subseteq OkOps
    /\ \A i \in DOMAIN Children(node) : SafeInterpreter_ok(Children(node)[i])

\* A result of _eval: ok = FALSE when it raises.
Raised == [ok |-> FALSE, v |-> 0]

Value(v) == [ok |-> TRUE, v |-> v]

Bool(b) == IF b THEN 1 ELSE 0

\* Python's a // b and a % b.
FloorDiv(a, b) == IF b > 0 THEN a \div b ELSE (-a) \div (-b)

Mod(a, b) == IF b > 0 THEN a % b ELSE -((-a) % (-b))

RECURSIVE SafeInterpreter_eval(_)
RECURSIVE eval_all(_, _)
RECURSIVE eval_any(_, _)
RECURSIVE eval_chain(_, _, _, _)

\* The loop of the And branch from values[i] on, r being true so far.
eval_all(values, i) ==
    IF i > Len(values) THEN Value(1)
    ELSE LET e == SafeInterpreter_eval(values[i])
         IN  IF ~e.ok THEN Raised
             ELSE IF e.v = 0 THEN Value(0)
             ELSE eval_all(values, i + 1)

\* The loop of the Or branch from values[i] on, r being false so far.
eval_any(values, i) ==
    IF i > Len(values) THEN Value(0)
    ELSE LET e == SafeInterpreter_eval(values[i])
         IN  IF ~e.ok THEN Raised
             ELSE IF e.v # 0 THEN Value(1)
             ELSE eval_any(values, i + 1)

\* The loop of the Compare branch from the i-th operator on.
eval_chain(n, i, left, ok) ==
    IF i > Len(n.ops) \/ i > Len(n.comparators) THEN Value(Bool(ok))
    ELSE LET e == SafeInterpreter_eval(n.comparators[i])
             op == n.ops[i]
         IN  IF ~e.ok THEN Raised
             ELSE IF op = "Lt" THEN eval_chain(n, i + 1, e.v, ok /\ left < e.v)
             ELSE IF op = "LtE" THEN eval_chain(n, i + 1, e.v, ok /\ left <= e.v)
             ELSE IF op = "Gt" THEN eval_chain(n, i + 1, e.v, ok /\ left > e.v)
             ELSE IF op = "GtE" THEN eval_chain(n, i + 1, e.v, ok /\ left >= e.v)
             ELSE IF op = "Eq" THEN eval_chain(n, i + 1, e.v, ok /\ left = e.v)
             ELSE IF op = "NotEq" THEN eval_chain(n, i + 1, e.v, ok /\ left # e.v)
             ELSE Raised

SafeInterpreter_eval(n) ==
    IF n.k = "Constant" THEN
        IF n.ty \in {"bool", "int"} THEN Value(n.value) ELSE Raised
    ELSE IF n.k = "Name" THEN
        IF n.id \in DOMAIN locals THEN Value(locals[n.id]) ELSE Raised
    ELSE IF n.k = "UnaryOp" /\ n.op \in {"Not", "UAdd", "USub"} THEN
        LET e == SafeInterpreter_eval(n.operand)
        IN  IF ~e.ok THEN Raised
            ELSE IF n.op = "Not" THEN Value(Bool(e.v = 0))
            ELSE IF n.op = "UAdd" THEN Value(e.v)
            ELSE Value(-e.v)
    ELSE IF n.k = "BoolOp" /\ n.op = "And" THEN eval_all(n.values, 1)
    ELSE IF n.k = "BoolOp" /\ n.op = "Or" THEN eval_any(n.values, 1)
    ELSE IF n.k = "BinOp" THEN
        LET a == SafeInterpreter_eval(n.left)
            b == SafeInterpreter_eval(n.right)
        IN  IF ~a.ok \/ ~b.ok THEN Raised
            ELSE IF n.op = "Add" THEN Value(a.v + b.v)
            ELSE IF n.op = "Sub" THEN Value(a.v - b.v)
            ELSE IF n.op = "Mult" THEN Value(a.v * b.v)
            ELSE IF n.op \in {"Div", "FloorDiv"} THEN
                IF b.v = 0 THEN Raised ELSE Value(FloorDiv(a.v, b.v))
            ELSE IF n.op = "Mod" THEN
                IF b.v = 0 THEN Raised ELSE Value(Mod(a.v, b.v))
            ELSE Raised
    ELSE IF n.k = "Compare" THEN
        LET e == SafeInterpreter_eval(n.left)
        IN  IF ~e.ok THEN Raised ELSE eval_chain(n, 1, e.v, TRUE)
    ELSE IF n.k = "Call" THEN
        IF n.func.k # "Name" THEN Raised
        ELSE IF n.func.id \in SafeInterpreter_PREDS THEN
            IF n.args # <<>> \/ n.keywords # <<>> THEN Raised
            ELSE Value(Bool(App_api_pred(n.func.id)))
        ELSE Raised
    ELSE Raised

\* The frame of SafeInterpreter.program before its first resumption, and
\* the frame of a while statement of _exec with its local guard.
StartFrame == [k |-> "start"]

GuardedWhile(node) == [k |-> "while", node |-> node, guard |-> 0]

\* The assignment that forgets the other names.
Bind_alone(name, v) == [x \in {name} |-> v]

\* self.locals[name] = v
Bind(name, v) ==
    [x \in DOMAIN locals \cup {name} |-> IF x = name THEN v ELSE locals[x]]

\* App.stop(msg)
App_stop(msg) ==
    /\ running' = FALSE
    /\ gen' = "none"
    /\ stack' = <<>>
    /\ log' = <<msg>>

\* step_once after next(self.gen) raised StopIteration.
StopIteration == App_stop(IF Agent_at_goal THEN "Reached goal!" ELSE "Finished.")

\* step_once after next(self.gen) raised another exception.
Error ==
    /\ App_stop("Error")
    /\ UNCHANGED <<maze, pos, dir, action_count, code, locals, trail>>

\* A generator of the interpreter returns: the one that started it goes on,
\* and the end of the outermost is StopIteration.
main_Returns(st) ==
    /\ IF st = <<>> THEN StopIteration
       ELSE /\ stack' = st
            /\ UNCHANGED <<running, gen, log>>
    /\ UNCHANGED <<maze, pos, dir, action_count, code, locals, trail>>

\* The frames go on with st; nothing else changes.
main_Continues(st) ==
    /\ stack' = st
    /\ UNCHANGED <<maze, pos, dir, action_count, running, log, code, gen, locals, trail>>

\* SafeInterpreter.program at its first resumption: ast.parse and _ok.
SafeInterpreter_program ==
    /\ gen = "executing"
    /\ top.k = "start"
    /\ IF code = Unparsable THEN Error
       ELSE IF ~SafeInterpreter_ok(Module(code)) THEN Error
       ELSE main_Continues(<<BlockFrame(code)>>)

\* One statement of a loop "for s in ...: yield from self._exec(s)", with
\* what step_once does when next(self.gen) returns at the yield.
SafeInterpreter_exec ==
    /\ gen = "executing"
    /\ top.k = "block"
    /\ IF top.i > Len(top.stmts) THEN main_Returns(rest)
       ELSE IF line.k = "Expr" /\ line.value.k = "Call" THEN
           LET name == IF line.value.func.k = "Name" THEN line.value.func.id ELSE "None"
           IN  IF name \in SafeInterpreter_ACTIONS THEN
                   IF line.value.args # <<>> \/ line.value.keywords # <<>> THEN Error
                   ELSE LET r == App_api_action(name)
                        IN  /\ pos' = r.pos
                            /\ dir' = r.dir
                            /\ action_count' = action_count + 1
                            /\ trail' = Append(trail, [op |-> name, pos |-> r.pos, dir |-> r.dir])
                            /\ IF action_count + 1 > max_actions
                               THEN App_stop("Max actions exceeded.")
                               ELSE /\ gen' = "suspended"
                                    /\ stack' = advanced
                                    /\ UNCHANGED <<running, log>>
                            /\ UNCHANGED <<maze, code, locals>>
               ELSE IF name \in SafeInterpreter_PREDS THEN main_Continues(advanced)
               ELSE Error
       ELSE IF line.k = "If" THEN
           LET t == SafeInterpreter_eval(line.test)
           IN  IF ~t.ok THEN Error
               ELSE main_Continues(Append(advanced,
                        BlockFrame(IF t.v # 0 THEN line.body ELSE line.orelse)))
       ELSE IF line.k = "While" THEN
           main_Continues(Append(advanced, GuardedWhile(line)))
       ELSE IF line.k = "Assign" THEN
           IF Len(line.targets) # 1 \/ line.targets[1].k # "Name" THEN Error
           ELSE LET v == SafeInterpreter_eval(line.value)
                IN  IF ~v.ok THEN Error
                    ELSE /\ locals' = Bind(line.targets[1].id, v.v)
                         /\ stack' = advanced
                         /\ UNCHANGED <<maze, pos, dir, action_count, running, log, code,
                                        gen, trail>>
       ELSE IF line.k = "AugAssign" THEN
           IF line.target.k # "Name" THEN Error
           ELSE LET cur == IF line.target.id \in DOMAIN locals
                           THEN locals[line.target.id] ELSE 0
                    delta == SafeInterpreter_eval(line.value)
                IN  IF ~delta.ok THEN Error
                    ELSE IF line.op \notin {"Add", "Sub"} THEN Error
                    ELSE /\ locals' = Bind(line.target.id,
                                           IF line.op = "Add" THEN cur + delta.v
                                           ELSE cur - delta.v)
                         /\ stack' = advanced
                         /\ UNCHANGED <<maze, pos, dir, action_count, running, log, code,
                                        gen, trail>>
       ELSE Error

\* The while statement of _exec without its guard.
SafeInterpreter_while_unguarded ==
    /\ gen = "executing"
    /\ top.k = "while"
    /\ LET t == SafeInterpreter_eval(top.node.test)
       IN  IF ~t.ok THEN Error
           ELSE IF t.v # 0 THEN
               main_Continues(Append(Append(rest, top), BlockFrame(top.node.body)))
           ELSE main_Continues(Append(rest, BlockFrame(top.node.orelse)))

\* The while statement of _exec: its test and its guard, then its else.
SafeInterpreter_while ==
    /\ gen = "executing"
    /\ top.k = "while"
    /\ LET t == SafeInterpreter_eval(top.node.test)
       IN  IF ~t.ok THEN Error
           ELSE IF t.v # 0 THEN
               IF top.guard + 1 > LOOP_GUARD THEN Error
               ELSE main_Continues(Append(Append(rest, [top EXCEPT !.guard = top.guard + 1]),
                                          BlockFrame(top.node.body)))
           ELSE main_Continues(Append(rest, BlockFrame(top.node.orelse)))

\* App.start: the Run button.
App_start ==
    /\ gen # "executing"
    /\ Agent_reset
    /\ gen' = "suspended"
    /\ stack' = <<StartFrame>>
    /\ locals' = <<>>
    /\ trail' = <<>>
    /\ running' = TRUE
    /\ log' = <<"Started.">>
    /\ UNCHANGED <<maze, code>>

\* App.step_once up to its next(self.gen): the Step button, or the tick of
\* a running App.  The agent's actions are only reset by Run and Reset:
\* the guard keeps them finite.
App_step_once ==
    /\ gen # "executing"
    /\ IF gen = "none"
       THEN /\ action_count <= max_actions
            /\ stack' = <<StartFrame>>
            /\ locals' = <<>>
            /\ trail' = <<>>
       ELSE UNCHANGED <<stack, locals, trail>>
    /\ gen' = "executing"
    /\ UNCHANGED <<maze, pos, dir, action_count, running, log, code>>

\* The Reset button: agent.reset() and stop("Reset.").
App_reset ==
    /\ gen # "executing"
    /\ Agent_reset
    /\ App_stop("Reset.")
    /\ UNCHANGED <<maze, code, locals, trail>>

\* App.change_maze: the other maze, a new Agent on it, and stop.
App_change_maze ==
    /\ gen # "executing"
    /\ \E i \in DOMAIN MAZES :
          /\ MAZES[i] = maze
          /\ maze' = MAZES[(i % Len(MAZES)) + 1]
    /\ pos' = Maze_start'
    /\ dir' = 1
    /\ action_count' = 0
    /\ App_stop("Maze loaded.")
    /\ UNCHANGED <<code, locals, trail>>

\* while not at_goal(): if path_right(): turn_right(); move()
\* elif path_ahead(): move() else: turn_left()
RightHand ==
    While(Not(Pred("at_goal")),
          <<If(Pred("path_right"), <<TurnRight, Move>>,
               <<If(Pred("path_ahead"), <<Move>>, <<TurnLeft>>)>>)>>, <<>>)

LeftHand ==
    While(Not(Pred("at_goal")),
          <<If(Pred("path_left"), <<TurnLeft, Move>>,
               <<If(Pred("path_ahead"), <<Move>>, <<TurnRight>>)>>)>>, <<>>)

\* x = 0; while x < 2: move(); x += 1
Counting ==
    <<Assign(<<Name("x")>>, Num(0)),
      While(Compare(Name("x"), <<"Lt">>, <<Num(2)>>),
            <<Move, AugAssign(Name("x"), "Add", Num(1))>>, <<TurnLeft>>)>>

\* The texts of the editor: the two SAMPLES, programs with text left after
\* the goal, programs with variables, and texts the interpreter refuses.
MainSources ==
    {<<RightHand>>, <<LeftHand>>, <<LeftHand, TurnLeft, Move>>,
     <<Move, Move>>, <<Expr(Pred("path_ahead")), TurnRight, Move>>,
     Counting,
     <<Assign(<<Name("x")>>, Num(0)), Assign(<<Name("y")>>, Num(2)),
       AugAssign(Name("x"), "Sub", Num(1)), Move>>,
     <<While(True, <<TurnLeft>>, <<>>)>>,
     <<Move, While(True, <<Expr(Pred("path_ahead"))>>, <<>>)>>,
     <<While(Pred("path_ahead"), <<Assign(<<Name("x")>>, Num(1))>>, <<Move>>), Move>>,
     <<Move, If(BinOp(Num(1), "Mod", Num(0)), <<Move>>, <<>>)>>,
     <<Move, If(Name("y"), <<Move>>, <<>>)>>,
     <<Move, Expr(Call(Name("jump"), <<>>))>>,
     <<Move, Pass>>,
     Unparsable}

\* What leaves the state of main.py alone.
notMain ==
    <<broke, raised, timers, apiVars, who, prev, after, runs, owner, run_btn, maze_str,
      pyVars, markVars>>

InitMain ==
    /\ maze = MAZES[1]
    /\ pos = Maze_start
    /\ dir = 1
    /\ action_count = 0
    /\ running = FALSE
    /\ gen = "none"
    /\ stack = <<>>
    /\ log = <<"Ready.">>
    /\ code \in MainSources
    /\ broke = FALSE
    /\ raised = "none"
    /\ timers = 0
    /\ row = JS_MAZE_START_ROW
    /\ col = JS_MAZE_START_COL
    /\ direction = 1
    /\ queue = <<>>
    /\ who = "main"
    /\ trail = <<>>
    /\ ExtInit

AppStart == App_start /\ UNCHANGED notMain

AppStepOnce == App_step_once /\ UNCHANGED notMain

AppReset == App_reset /\ UNCHANGED notMain

AppChangeMaze == App_change_maze /\ UNCHANGED notMain

MainProgram == SafeInterpreter_program /\ UNCHANGED notMain

MainExec == SafeInterpreter_exec /\ UNCHANGED notMain

MainWhile == SafeInterpreter_while /\ UNCHANGED notMain

NextMain ==
    \/ AppStart \/ AppStepOnce \/ AppReset \/ AppChangeMaze
    \/ MainProgram \/ MainExec \/ MainWhile

MainSpec == InitMain /\ [][NextMain]_vars

\* The runs that Run and then the Step button or the ticks of a running App
\* drive, each to its end: step_once keeps being called, and a generator
\* that was resumed keeps running.
FirstStart == log = <<"Ready.">> /\ AppStart

MainStep == AppStepOnce \/ MainProgram \/ MainExec \/ MainWhile

MainRunsNext == FirstStart \/ MainStep

MainLiveSpec == InitMain /\ [][MainRunsNext]_vars /\ WF_vars(MainStep)

-----------------------------------------------------------------------------
(* maze_game.py: the Tk host MazeGame.  It has no validator: run_clicked   *)
(* parses the text and hands the tree to exec_block.  step_runner gets the *)
(* generator it resumes as an argument, and so does each callback it       *)
(* leaves with window.after: after holds the pending callbacks, each with  *)
(* the frames of its generator and the number of the run that made it.     *)
(* gen is "executing" while a callback runs a generator (its frames are in *)
(* stack, its run in owner) and "none" between callbacks.  The maze comes  *)
(* from mazes/default.txt, an input; MAX_ACTIONS is scaled as the          *)
(* engine's.  log holds the output since the last clear_output.            *)

\* The runs one session starts.
MaxRuns == 2

mg_maze_start == CHOOSE p \in Cells : cell(p[1], p[2]) = "S"

mg_maze_goal == CHOOSE p \in Cells : cell(p[1], p[2]) = "G"

mg_in_bounds(r, c) == 0 <= r /\ r < Len(maze) /\ 0 <= c /\ c < Len(maze[1])

mg_is_wall(r, c) == IF ~mg_in_bounds(r, c) THEN TRUE ELSE cell(r, c) = "#"

mg_forward_delta(d) ==
    IF d = 0 THEN <<-1, 0>>
    ELSE IF d = 1 THEN <<0, 1>>
    ELSE IF d = 2 THEN <<1, 0>>
    ELSE <<0, -1>>

mg_left_dir == (dir - 1) % 4

mg_right_dir == (dir + 1) % 4

\* not is_wall of the cell next to pos in direction d
mg_path(d) ==
    LET v == mg_forward_delta(d) IN ~mg_is_wall(pos[1] + v[1], pos[2] + v[2])

mg_path_ahead == mg_path(dir)

mg_path_left == mg_path(mg_left_dir)

mg_path_right == mg_path(mg_right_dir)

mg_at_goal == pos = mg_maze_goal

\* getattr(self, item.func.id)() as 0/1
mg_predicate(fname) ==
    LET b == CASE fname = "at_goal"    -> mg_at_goal
               [] fname = "path_ahead" -> mg_path_ahead
               [] fname = "path_left"  -> mg_path_left
               [] fname = "path_right" -> mg_path_right
    IN  IF b THEN 1 ELSE 0

mg_do_turn_left == [pos |-> pos, dir |-> mg_left_dir, running |-> running, log |-> <<>>]

mg_do_turn_right == [pos |-> pos, dir |-> mg_right_dir, running |-> running, log |-> <<>>]

mg_do_move ==
    IF mg_path_ahead
    THEN LET v == mg_forward_delta(dir)
             p == <<pos[1] + v[1], pos[2] + v[2]>>
         IN  IF p = mg_maze_goal
             THEN [pos |-> p, dir |-> dir, running |-> FALSE,
                   log |-> <<"Reached the goal!">>]
             ELSE [pos |-> p, dir |-> dir, running |-> running, log |-> <<>>]
    ELSE [pos |-> pos, dir |-> dir, running |-> running,
          log |-> <<"Bumped into a wall.">>]

mg_Raise == [ok |-> FALSE, v |-> 0]

mg_Return(v) == [ok |-> TRUE, v |-> v]

RECURSIVE mg_eval_expr(_)
RECURSIVE mg_eval_and(_, _)
RECURSIVE mg_eval_or(_, _)

\* for v in item.values: val = bool(val and eval_expr(v)); if not val: break
mg_eval_and(values, i) ==
    IF i > Len(values) THEN mg_Return(1)
    ELSE LET r == mg_eval_expr(values[i])
         IN  IF ~r.ok THEN mg_Raise
             ELSE IF r.v = 0 THEN mg_Return(0)
             ELSE mg_eval_and(values, i + 1)

\* for v in item.values: val = bool(val or eval_expr(v)); if val: break
mg_eval_or(values, i) ==
    IF i > Len(values) THEN mg_Return(0)
    ELSE LET r == mg_eval_expr(values[i])
         IN  IF ~r.ok THEN mg_Raise
             ELSE IF r.v # 0 THEN mg_Return(1)
             ELSE mg_eval_or(values, i + 1)

mg_eval_expr(item) ==
    IF item.k = "Call" /\ item.func.k = "Name" THEN
        IF item.func.id \in COND_FUNCS THEN mg_Return(mg_predicate(item.func.id))
        ELSE mg_Raise
    ELSE IF item.k = "UnaryOp" /\ item.op = "Not" THEN
        LET r == mg_eval_expr(item.operand)
        IN  IF ~r.ok THEN mg_Raise ELSE mg_Return(IF r.v = 0 THEN 1 ELSE 0)
    ELSE IF item.k = "BoolOp" THEN
        IF item.op = "And" THEN mg_eval_and(item.values, 1)
        ELSE IF item.op = "Or" THEN mg_eval_or(item.values, 1)
        ELSE mg_Raise
    ELSE IF item.k = "Constant" THEN
        IF item.ty \in {"bool", "int"} THEN mg_Return(item.value) ELSE mg_Raise
    ELSE IF item.k = "Compare" THEN
        IF Len(item.ops) = 1 /\ Len(item.comparators) = 1 THEN
            LET left == mg_eval_expr(item.left)
                right == mg_eval_expr(item.comparators[1])
            IN  IF ~left.ok \/ ~right.ok THEN mg_Raise
                ELSE IF item.ops[1] = "Eq" THEN mg_Return(IF left.v = right.v THEN 1 ELSE 0)
                ELSE IF item.ops[1] = "NotEq" THEN mg_Return(IF left.v # right.v THEN 1 ELSE 0)
                ELSE mg_Raise
        ELSE mg_Raise
    ELSE mg_Raise

mg_StoppedMsg == "Program stopped: exceeded MAX_ACTIONS actions."

mg_EndedMsg == "Program ended without reaching the goal."

\* enable_editing(flag), as far as the Run button goes
mg_enable_editing(flag) == run_btn' = IF flag THEN "normal" ELSE "disabled"

\* The callback that runs the generator is over.
mg_CallbackEnds ==
    /\ gen' = "none"
    /\ stack' = <<>>

\* next(code_iterator) raised StopIteration in step_runner.
mg_StopIteration(l) ==
    /\ log' = Append(l, mg_EndedMsg)
    /\ running' = FALSE
    /\ mg_enable_editing(TRUE)
    /\ mg_CallbackEnds

\* A generator returns: its caller goes on, and the end of the outermost is
\* StopIteration in step_runner.  budget: the return is the one of the
\* budget check of exec_block, after its message.
mg_Returns(st, budget) ==
    LET l == IF budget THEN Append(log, mg_StoppedMsg) ELSE log
    IN  /\ IF st = <<>> THEN mg_StopIteration(l)
           ELSE /\ stack' = st
                /\ log' = l
                /\ running' = IF budget THEN FALSE ELSE running
                /\ gen' = gen
                /\ IF budget THEN mg_enable_editing(TRUE) ELSE UNCHANGED run_btn
        /\ UNCHANGED <<maze, pos, dir, action_count, code, after, runs, owner, raised>>

\* exec_block or eval_expr raised UserCodeError: step_runner logs it.
mg_Raises ==
    /\ log' = Append(log, "Code error")
    /\ running' = FALSE
    /\ mg_enable_editing(TRUE)
    /\ mg_CallbackEnds
    /\ UNCHANGED <<maze, pos, dir, action_count, code, after, runs, owner, raised>>

\* The generator raised an exception step_runner does not catch: it leaves
\* the callback.
mg_Crashes ==
    /\ raised' = "Exception"
    /\ mg_CallbackEnds
    /\ UNCHANGED <<maze, pos, dir, action_count, running, log, code, after, runs, owner,
                   run_btn>>

\* The generator goes on with the frames st within the same next().
mg_Continues(st) ==
    /\ stack' = st
    /\ UNCHANGED <<maze, pos, dir, action_count, running, log, code, gen, after, runs,
                   owner, raised, run_btn>>

\* The bounds of the for loop of exec_block: [ok, start, stop]; ok = FALSE
\* when reading them, or range(), raises.
mg_for_range(node) ==
    LET call == node.iter
        bad == [ok |-> FALSE, start |-> 0, stop |-> 0]
        IsInt(a) == a.k = "Constant" /\ a.ty \in {"int", "bool"}
    IN  IF call.k # "Call" THEN bad
        ELSE IF Len(call.args) = 1 THEN
            IF IsInt(call.args[1])
            THEN [ok |-> TRUE, start |-> 0, stop |-> call.args[1].value] ELSE bad
        ELSE IF Len(call.args) >= 2 THEN
            IF IsInt(call.args[1]) /\ IsInt(call.args[2])
            THEN [ok |-> TRUE, start |-> call.args[1].value, stop |-> call.args[2].value]
            ELSE bad
        ELSE bad

\* One statement of the for loop of exec_block.  At a yield step_runner
\* goes on and leaves the generator to a new window.after callback.
mg_exec_block ==
    /\ gen = "executing"
    /\ top.k = "block"
    /\ IF top.i > Len(top.stmts) THEN mg_Returns(rest, FALSE)
       ELSE IF action_count > MAX_ACTIONS THEN
           mg_Returns(rest, TRUE)
       ELSE IF line.k = "Expr" /\ line.value.k = "Call" THEN
           IF line.value.func.k # "Name" THEN mg_Crashes
           ELSE LET fname == line.value.func.id
                IN  IF fname \in ACTION_FUNCS THEN
                        LET r == CASE fname = "move"       -> mg_do_move
                                   [] fname = "turn_left"  -> mg_do_turn_left
                                   [] fname = "turn_right" -> mg_do_turn_right
                        IN  /\ pos' = r.pos
                            /\ dir' = r.dir
                            /\ running' = r.running
                            /\ log' = log \o r.log
                            /\ action_count' = action_count + 1
                            /\ after' = Append(after, [run |-> owner, stack |-> advanced])
                            /\ mg_CallbackEnds
                            /\ UNCHANGED <<maze, code, runs, owner, raised, run_btn>>
                    ELSE mg_Raises
       ELSE IF line.k = "If" THEN
           LET t == mg_eval_expr(line.test)
           IN  IF ~t.ok THEN mg_Raises
               ELSE mg_Continues(Append(advanced,
                        BlockFrame(IF t.v # 0 THEN line.body ELSE line.orelse)))
       ELSE IF line.k = "While" THEN
           mg_Continues(Append(advanced, WhileFrame(line)))
       ELSE IF line.k = "For" THEN
           LET b == mg_for_range(line)
           IN  IF ~b.ok THEN mg_Crashes
               ELSE mg_Continues(Append(advanced, ForFrame(line, b.start, b.stop)))
       ELSE IF line.k = "Pass" THEN mg_Continues(advanced)
       ELSE mg_Raises

\* The else clause of the while loop: it runs when the loop is left with
\* running set and the test, evaluated again, false.
mg_while_orelse(node) ==
    IF node.orelse # <<>> /\ running THEN
        LET t == mg_eval_expr(node.test)
        IN  IF ~t.ok THEN mg_Raises
            ELSE IF t.v = 0 THEN mg_Continues(Append(rest, BlockFrame(node.orelse)))
            ELSE mg_Returns(rest, FALSE)
    ELSE mg_Returns(rest, FALSE)

\* The while loop of exec_block.
mg_exec_while ==
    /\ gen = "executing"
    /\ top.k = "while"
    /\ IF top.ph = "test" THEN
           IF ~running THEN mg_while_orelse(top.node)
           ELSE LET t == mg_eval_expr(top.node.test)
                IN  IF ~t.ok THEN mg_Raises
                    ELSE IF t.v # 0 THEN
                        mg_Continues(Append(Append(rest, [top EXCEPT !.ph = "after"]),
                                            BlockFrame(top.node.body)))
                    ELSE mg_while_orelse(top.node)
       ELSE IF action_count > MAX_ACTIONS THEN mg_while_orelse(top.node)
       ELSE mg_Continues(Append(rest, [top EXCEPT !.ph = "test"]))

\* The for loop of exec_block.
mg_exec_for ==
    /\ gen = "executing"
    /\ top.k = "for"
    /\ IF top.ph = "top" THEN
           IF top.i >= top.stop THEN mg_Returns(rest, FALSE)
           ELSE mg_Continues(Append(Append(rest, [top EXCEPT !.i = top.i + 1, !.ph = "after"]),
                                    BlockFrame(top.node.body)))
       ELSE IF action_count > MAX_ACTIONS THEN mg_Returns(rest, FALSE)
       ELSE mg_Continues(Append(rest, [top EXCEPT !.ph = "top"]))

\* reset(): the Reset button.
mg_reset ==
    /\ gen = "none"
    /\ action_count' = 0
    /\ running' = FALSE
    /\ dir' = 1
    /\ pos' = mg_maze_start
    /\ log' = <<>>
    /\ mg_enable_editing(TRUE)
    /\ UNCHANGED <<maze, code, gen, stack, after, runs, owner, raised>>

\* run_clicked on the text src, up to the next(code_iterator) of the
\* step_runner it calls.
mg_run_clicked(src) ==
    /\ gen = "none"
    /\ run_btn = "normal"
    /\ ~running
    /\ runs < MaxRuns
    /\ IF src = Unparsable
       THEN /\ log' = <<"Syntax error">>
            /\ UNCHANGED <<maze, pos, dir, action_count, running, code, gen, stack, after,
                           runs, owner, raised, run_btn>>
       ELSE /\ action_count' = 0
            /\ dir' = 1
            /\ pos' = mg_maze_start
            /\ log' = <<>>
            /\ running' = TRUE
            /\ code' = src
            /\ runs' = runs + 1
            /\ owner' = runs + 1
            /\ stack' = <<BlockFrame(src)>>
            /\ gen' = "executing"
            /\ mg_enable_editing(FALSE)
            /\ UNCHANGED <<maze, after, raised>>

\* The i-th pending callback fires: step_runner(code_iterator) up to its
\* next(code_iterator).
mg_step_runner(i) ==
    /\ gen = "none"
    /\ i \in DOMAIN after
    /\ after' = SubSeq(after, 1, i - 1) \o SubSeq(after, i + 1, Len(after))
    /\ IF ~running
       THEN /\ mg_enable_editing(TRUE)
            /\ UNCHANGED <<gen, stack, owner>>
       ELSE /\ gen' = "executing"
            /\ stack' = after[i].stack
            /\ owner' = after[i].run
            /\ UNCHANGED run_btn
    /\ UNCHANGED <<maze, pos, dir, action_count, running, log, code, runs, raised>>

\* The texts of the editor of maze_game.py.
GameSources ==
    {<<Move, Move>>,
     <<TurnLeft, Move, Move>>,
     <<If(Pred("path_ahead"), <<Move>>, <<TurnRight>>), Move>>,
     <<While(True, <<Move>>, <<>>)>>,
     [i \in 1 .. MAX_ACTIONS + 2 |-> TurnLeft],
     <<For(Name("_"), Range1(2), <<Move>>, <<>>), TurnRight>>,
     <<Move, Assign(<<Name("x")>>, Num(1))>>,
     <<Move, Expr(Attribute(Name("x"), "y"))>>,
     <<Move, Expr(Call(Attribute(Name("x"), "y"), <<>>))>>,
     Unparsable}

\* What maze_game.py leaves alone.
notGame == <<broke, timers, apiVars, who, trail, prev, locals, maze_str, pyVars, markVars>>

InitMazeGame ==
    /\ maze \in Mazes
    /\ action_count = 0
    /\ running = FALSE
    /\ dir = 1
    /\ pos = mg_maze_start
    /\ log = <<>>
    /\ code = <<>>
    /\ gen = "none"
    /\ stack = <<>>
    /\ broke = FALSE
    /\ raised = "none"
    /\ timers = 0
    /\ row = JS_MAZE_START_ROW
    /\ col = JS_MAZE_START_COL
    /\ direction = 1
    /\ queue = <<>>
    /\ who = "maze_game"
    /\ trail = <<>>
    /\ ExtInit

MgRunClicked ==
    /\ \E src \in GameSources : mg_run_clicked(src)
    /\ UNCHANGED notGame

MgReset == mg_reset /\ UNCHANGED notGame

MgStepRunner ==
    /\ \E i \in DOMAIN after : mg_step_runner(i)
    /\ UNCHANGED notGame

MgExecBlock == mg_exec_block /\ UNCHANGED notGame

MgExecWhile == mg_exec_while /\ UNCHANGED notGame

MgExecFor == mg_exec_for /\ UNCHANGED notGame

NextMazeGame ==
    \/ MgRunClicked \/ MgReset \/ MgStepRunner
    \/ MgExecBlock \/ MgExecWhile \/ MgExecFor

MazeGameSpec == InitMazeGame /\ [][NextMazeGame]_vars

-----------------------------------------------------------------------------
(* maze.py: run_user_code(src, max_seconds, max_steps).  The user code is  *)
(* run by exec under sys.settrace(trace).  A text is the sequence of its   *)
(* lines; of a line the model keeps where control goes after it (next, 0   *)
(* at the end of the text) and the except clause that covers it (handler,  *)
(* 0 when no try statement encloses it).  The interpreter calls the trace  *)
(* function before each line while a trace function is set; when the      *)
(* trace function raises, the interpreter unsets it (as sys.settrace(None) *)
(* does) and the exception is raised in the user's frame at that line.     *)
(* elapsed is time.time() - start in ticks; the clock runs on its own.     *)
(* trail keeps the lines executed and the StepLimitErrors raised.          *)

\* The limits the caller passes.
max_steps == 3

max_seconds == 2

\* The lines one call may execute in the model.
MaxLines == 8

PyLine(next, handler) == [next |-> next, handler |-> handler]

\* pass
\* pass
TwoLines == <<PyLine(2, 0), PyLine(0, 0)>>

\* while True:
\*     pass
\*     pass
LoopForever == <<PyLine(2, 0), PyLine(3, 0), PyLine(2, 0)>>

\* while True:
\*     try:
\*         pass
\*     except Exception:
\*         pass
TryInLoop == <<PyLine(2, 0), PyLine(3, 0), PyLine(2, 4), PyLine(5, 0), PyLine(2, 0)>>

\* try:
\*     while True:
\*         pass
\*         pass
\* except Exception:
\*     pass
LoopInTry ==
    <<PyLine(2, 0), PyLine(3, 5), PyLine(4, 5), PyLine(3, 5), PyLine(6, 0), PyLine(0, 0)>>

\* while True:
\*     try:
\*         while True:
\*             pass
\*             pass
\*     except Exception:
\*         pass
LoopInTryInLoop ==
    <<PyLine(2, 0), PyLine(3, 0), PyLine(4, 6), PyLine(5, 6), PyLine(4, 6), PyLine(7, 0),
      PyLine(2, 0)>>

UserTexts == {TwoLines, LoopForever, TryInLoop, LoopInTry, LoopInTryInLoop, Unparsable}

\* trace(frame, "line", arg) for a frame of "<exec>" raises StepLimitError:
\* steps += 1, then the two tests.
trace_raises == steps + 1 > max_steps \/ elapsed > max_seconds

\* run_user_code up to the first line of the user code: start, steps,
\* sys.settrace(trace), compile, exec.
run_user_code(src) ==
    /\ exec_state = "none"
    /\ code' = src
    /\ steps' = 0
    /\ elapsed' = 0
    /\ executed' = 0
    /\ trail' = <<>>
    /\ IF src = Unparsable
       THEN /\ raised' = "SyntaxError"
            /\ exec_state' = "raised"
            /\ trace_set' = FALSE
            /\ f_lineno' = 0
       ELSE /\ raised' = "none"
            /\ exec_state' = "running"
            /\ trace_set' = TRUE
            /\ f_lineno' = 1

\* One line of the user code: its line event when a trace function is set,
\* then the line; or the StepLimitError of the trace function, raised at
\* the line, caught by the except clause that covers it or leaving
\* run_user_code through its finally.
exec_line ==
    /\ exec_state = "running"
    /\ executed < MaxLines
    /\ IF trace_set /\ trace_raises
       THEN /\ steps' = steps + 1
            /\ trace_set' = FALSE
            /\ trail' = Append(trail, [op |-> "StepLimitError", lineno |-> f_lineno])
            /\ IF code[f_lineno].handler # 0
               THEN /\ f_lineno' = code[f_lineno].handler
                    /\ UNCHANGED <<exec_state, raised>>
               ELSE /\ f_lineno' = 0
                    /\ exec_state' = "raised"
                    /\ raised' = "StepLimitError"
            /\ UNCHANGED executed
       ELSE /\ steps' = IF trace_set THEN steps + 1 ELSE steps
            /\ executed' = executed + 1
            /\ trail' = Append(trail, [op |-> "line", lineno |-> f_lineno])
            /\ f_lineno' = code[f_lineno].next
            /\ IF code[f_lineno].next = 0
               THEN /\ exec_state' = "returned"
                    /\ trace_set' = FALSE
               ELSE UNCHANGED <<exec_state, trace_set>>
            /\ UNCHANGED raised
    /\ UNCHANGED <<code, elapsed>>

\* The clock goes on while the user code runs.
clock_tick ==
    /\ exec_state = "running"
    /\ elapsed <= max_seconds
    /\ elapsed' = elapsed + 1
    /\ UNCHANGED <<code, steps, trace_set, f_lineno, executed, exec_state, raised, trail>>

\* What run_user_code leaves alone.
notUserCode ==
    <<maze, pos, dir, action_count, running, log, gen, stack, broke, timers, apiVars, who,
      prev, locals, after, runs, owner, run_btn, maze_str, markVars>>

InitUserCode ==
    /\ maze \in Mazes
    /\ action_count = 0
    /\ running = FALSE
    /\ dir = 1
    /\ pos = maze_start
    /\ log = <<>>
    /\ code = <<>>
    /\ gen = "none"
    /\ stack = <<>>
    /\ broke = FALSE
    /\ raised = "none"
    /\ timers = 0
    /\ row = JS_MAZE_START_ROW
    /\ col = JS_MAZE_START_COL
    /\ direction = 1
    /\ queue = <<>>
    /\ who = "maze"
    /\ trail = <<>>
    /\ ExtInit

RunUserCode ==
    /\ \E src \in UserTexts : run_user_code(src)
    /\ UNCHANGED notUserCode

ExecLine == exec_line /\ UNCHANGED notUserCode

ClockTick == clock_tick /\ UNCHANGED notUserCode

NextUserCode == RunUserCode \/ ExecLine \/ ClockTick

UserCodeSpec == InitUserCode /\ [][NextUserCode]_vars

-----------------------------------------------------------------------------
(* MazeEngine(maze_str): the constructor, load_maze_from_string and reset. *)
(* A maze text is the sequence of its lines (str.splitlines), a line the   *)
(* sequence of its characters.                                             *)

\* The lines of a maze text and the width of a line.
MaxTextRows == 2

MaxTextCols == 2

MazeChars == {"S", "G", "#", " "}

MazeLines == UNION {[1 .. n -> MazeChars] : n \in 0 .. MaxTextCols}

MazeTexts == UNION {[1 .. n -> MazeLines] : n \in 0 .. MaxTextRows}

\* line.strip() != ""
NotBlank(l) == \E i \in DOMAIN l : l[i] # " "

None == <<>>

ValueError == [raised |-> "ValueError", maze |-> <<>>, maze_start |-> None, maze_goal |-> None]

RECURSIVE find_start_goal_last_goal(_, _, _, _)
\* The scan keeping the last G it meets.
find_start_goal_last_goal(grid, k, start, goal) ==
    LET cols == Len(grid[1])
        r == k \div cols
        c == k % cols
    IN  IF k >= Len(grid) * cols THEN
            IF start = None \/ goal = None THEN ValueError
            ELSE [raised |-> "none", maze |-> grid, maze_start |-> start, maze_goal |-> goal]
        ELSE IF grid[r + 1][c + 1] = "S" THEN
            IF start # None THEN ValueError
            ELSE find_start_goal_last_goal(grid, k + 1, <<r, c>>, goal)
        ELSE IF grid[r + 1][c + 1] = "G" THEN
            find_start_goal_last_goal(grid, k + 1, start, <<r, c>>)
        ELSE find_start_goal_last_goal(grid, k + 1, start, goal)

RECURSIVE find_start_goal(_, _, _, _)
\* The scan of the grid for S and G, from cell k in row-major order, and
\* the test after it.
find_start_goal(grid, k, start, goal) ==
    LET cols == Len(grid[1])
        r == k \div cols
        c == k % cols
    IN  IF k >= Len(grid) * cols THEN
            IF start = None \/ goal = None THEN ValueError
            ELSE [raised |-> "none", maze |-> grid, maze_start |-> start, maze_goal |-> goal]
        ELSE IF grid[r + 1][c + 1] = "S" THEN
            IF start # None THEN ValueError
            ELSE find_start_goal(grid, k + 1, <<r, c>>, goal)
        ELSE IF grid[r + 1][c + 1] = "G" THEN
            IF goal # None THEN ValueError
            ELSE find_start_goal(grid, k + 1, start, <<r, c>>)
        ELSE find_start_goal(grid, k + 1, start, goal)

\* load_maze_from_string: what it raises and the fields it sets.
load_maze_from_string(text) ==
    LET lines == SelectSeq(text, NotBlank)
    IN  IF lines = <<>> THEN ValueError
        ELSE IF \E i \in DOMAIN lines : Len(lines[i]) # Len(lines[1]) THEN ValueError
        ELSE find_start_goal(lines, 0, None, None)

\* MazeEngine(maze_str): the fields before load_maze_from_string.
InitLoad ==
    /\ maze_str \in MazeTexts
    /\ maze = <<>>
    /\ action_count = 0
    /\ running = FALSE
    /\ dir = 1
    /\ pos = <<0, 0>>
    /\ log = <<>>
    /\ code = <<>>
    /\ gen = "none"
    /\ stack = <<>>
    /\ broke = FALSE
    /\ raised = "none"
    /\ timers = 0
    /\ row = 0
    /\ col = 0
    /\ direction = 1
    /\ queue = <<>>
    /\ who = "engine"
    /\ trail = <<>>
    /\ prev = NoRun
    /\ locals = <<>>
    /\ after = <<>>
    /\ runs = 0
    /\ owner = 0
    /\ run_btn = "normal"
    /\ steps = 0
    /\ trace_set = FALSE
    /\ f_lineno = 0
    /\ executed = 0
    /\ elapsed = 0
    /\ exec_state = "none"
    /\ queue_mark = 0
    /\ iter_mark = 0

\* The rest of __init__: load_maze_from_string(maze_str), then reset().
MazeEngine_init ==
    /\ maze = <<>>
    /\ raised = "none"
    /\ LET r == load_maze_from_string(maze_str)
       IN  IF r.raised # "none"
           THEN /\ raised' = r.raised
                /\ UNCHANGED <<maze, pos, dir, action_count, running>>
           ELSE /\ maze' = r.maze
                /\ action_count' = 0
                /\ running' = TRUE
                /\ dir' = 1
                /\ pos' = r.maze_start
                /\ UNCHANGED raised
    /\ UNCHANGED <<log, code, gen, stack, broke, timers, apiVars, hostVars, extVars>>

LoadSpec == InitLoad /\ [][MazeEngine_init]_vars

-----
(* Claims about MazeEngine.                                                *)

\* C1: action_count never exceeds the ceiling MAX_ACTIONS: the action
\* after the ceiling is never executed.
C1_ActionCeiling == action_count <= MAX_ACTIONS

\* C2: once a move has put the agent on the goal cell, running is false
\* from that step on, and no later step of the run changes pos, dir or
\* action_count, whatever program text remains.
C2_GoalStopsRun ==
    [][RunStep => /\ at_goal' => ~running'
                  /\ at_goal => UNCHANGED <<pos, dir, action_count>>]_vars

\* C2 witness: the generator was resumed on the goal cell, inside a nested
\* block that still has statements to take.
C2_Witness ==
    /\ at_goal
    /\ gen = "executing"
    /\ Len(stack) > 1
    /\ top.k = "block"
    /\ top.i <= Len(top.stmts)

\* The node kinds the claim C3 names as disallowed.
DisallowedNode(n) ==
    \/ n.k \in {"Assign", "Import", "Attribute"}
    \/ n.k = "Compare" /\ Len(n.ops) > 1
    \/ n.k = "Expr" /\ n.value.k = "Call" /\ n.value.func.k = "Name"
                    /\ n.value.func.id \in COND_FUNCS

RECURSIVE ContainsDisallowed(_)
ContainsDisallowed(n) ==
    \/ DisallowedNode(n)
    \/ \E i \in DOMAIN Children(n) : ContainsDisallowed(Children(n)[i])

\* C3: a program with a disallowed node anywhere is rejected before its
\* generator exists, so it performs no action: its leading move() is never
\* executed.
C3_DisallowedNeverRuns == ContainsDisallowed(Module(code)) => action_count = 0

\* The vocabulary the claim C5 allows: conditions ...
RECURSIVE AllowedCond(_)
AllowedCond(e) ==
    \/ e.k = "Constant" /\ e.ty \in {"bool", "int"}
    \/ e.k = "UnaryOp" /\ e.op = "Not" /\ AllowedCond(e.operand)
    \/ e.k = "BoolOp" /\ e.op \in {"And", "Or"}
                      /\ \A i \in DOMAIN e.values : AllowedCond(e.values[i])
    \/ e.k = "Compare" /\ Len(e.ops) = 1 /\ Len(e.comparators) = 1
                       /\ e.ops[1] \in {"Eq", "NotEq"}
                       /\ AllowedCond(e.left) /\ AllowedCond(e.comparators[1])
    \/ e.k = "Call" /\ e.func.k = "Name" /\ e.func.id \in COND_FUNCS
                    /\ e.args = <<>> /\ e.keywords = <<>>

\* ... and statements.
RECURSIVE AllowedStmt(_)
AllowedStmt(s) ==
    \/ s.k = "Expr" /\ s.value.k = "Call" /\ s.value.func.k = "Name"
                    /\ s.value.func.id \in ACTION_FUNCS
                    /\ s.value.args = <<>> /\ s.value.keywords = <<>>
    \/ s.k \in {"If", "While"}
           /\ AllowedCond(s.test)
           /\ (\A i \in DOMAIN s.body : AllowedStmt(s.body[i]))
           /\ (\A j \in DOMAIN s.orelse : AllowedStmt(s.orelse[j]))
    \/ s.k = "For"
           /\ s.target.k = "Name"
           /\ s.iter.k = "Call" /\ s.iter.func.k = "Name" /\ s.iter.func.id = "range"
           /\ Len(s.iter.args) \in {1, 2}
           /\ (\A i \in DOMAIN s.iter.args :
                  s.iter.args[i].k = "Constant" /\ s.iter.args[i].ty = "int")
           /\ (\A j \in DOMAIN s.body : AllowedStmt(s.body[j]))
           /\ s.orelse = <<>>
    \/ s.k = "Pass"

AllowedProgram(body) == \A i \in DOMAIN body : AllowedStmt(body[i])

\* C5: every program of the allowed vocabulary is accepted by
\* _validate_tree, and its run never raises UserCodeError.
C5_AllowedNeverFaults ==
    /\ \A body \in Programs : AllowedProgram(body) => validate_tree(Module(body))
    /\ AllowedProgram(code) => gen # "faulted"

\* C6: every run that the host keeps resuming ends: the generator is
\* exhausted (or has raised) after finitely many steps.
C6_RunTerminates == (gen = "suspended") ~> (gen \in {"done", "faulted"})

\* C7: of if A / elif B / else C exactly one body runs (here: A move(),
\* B turn_left(), C turn_right()), and an else-body that starts with an if
\* runs in full: the nested if with its own else, then the statements after
\* it.
C7_IfElifElse ==
    \A A \in {True, False}, B \in {True, False} :
        /\ (gen = "done" /\ code = Elif(A, B)) =>
               /\ action_count = 1
               /\ dir = (IF A = True THEN 1 ELSE IF B = True THEN 0 ELSE 2)
        /\ (gen = "done" /\ code = ElseIf(A, B)) =>
               /\ action_count = (IF A = True THEN 1 ELSE 2)
               /\ dir = (IF A = True THEN 1 ELSE IF B = True THEN 0 ELSE 2)

\* C8: a run in which a while or for loop was left by its budget break has
\* been stopped when its generator ends: running is false and the
\* 'Program stopped' message was logged.
C8_BudgetBreakReported ==
    (gen = "done" /\ broke) =>
        (~running /\ \E i \in DOMAIN log : log[i] = StoppedMsg)

\* The cell one step from pos in the facing dir: 0 up, 1 right, 2 down,
\* 3 left.
CellAhead ==
    CASE dir = 0 -> <<pos[1] - 1, pos[2]>>
      [] dir = 1 -> <<pos[1], pos[2] + 1>>
      [] dir = 2 -> <<pos[1] + 1, pos[2]>>
      [] dir = 3 -> <<pos[1], pos[2] - 1>>

Blocked(p) == p \notin Cells \/ maze[p[1] + 1][p[2] + 1] = "#"

\* C9: in every reachable pose, do_move into a wall or out of the grid
\* leaves pos and dir alone and returns false; otherwise it moves pos by
\* the unit vector of the facing, leaves dir alone and returns true.
C9_DoMove ==
    IF Blocked(CellAhead)
    THEN do_move.pos = pos /\ do_move.dir = dir /\ do_move.ret = FALSE
    ELSE do_move.pos = CellAhead /\ do_move.dir = dir /\ do_move.ret = TRUE

\* C9 witness: a run that has moved off the start cell, faces up or left
\* and has bumped into a wall.
C9_Witness ==
    /\ pos # maze_start
    /\ dir \in {0, 3}
    /\ \E i \in DOMAIN log : log[i] = "Bumped into a wall."

-----------------------------------------------------------------------------
(* Claims about the actions called directly.                               *)

CurDir == IF who = "engine" THEN dir ELSE direction

CurPos == IF who = "engine" THEN pos ELSE <<row, col>>

Turns == {"turn_left", "turn_right"}

\* C10: a turn never fails and never changes the position; turn_left then
\* turn_right, and turn_right then turn_left, restore the facing; four
\* turn_left calls in a row restore the facing; the facing stays in 0..3.
C10_Turns ==
    LET n == Len(trail)
    IN  /\ CurDir \in 0 .. 3
        /\ (n >= 1 /\ trail[n].op \in Turns) =>
               (CurPos = trail[n].pos /\ raised = "none")
        /\ (n >= 2 /\ {trail[n - 1].op, trail[n].op} = Turns) =>
               CurDir = trail[n - 1].dir
        /\ (n >= 4 /\ \A i \in n - 3 .. n : trail[i].op = "turn_left") =>
               CurDir = trail[n - 3].dir

\* C10 witness: four turn_left calls in a row that started facing left,
\* away from the start cell.
C10_Witness ==
    LET n == Len(trail)
    IN  /\ n >= 4
        /\ \A i \in n - 3 .. n : trail[i].op = "turn_left"
        /\ trail[n - 3].dir = 3
        /\ CurPos # maze_start

\* The generator is about to execute a move() statement facing a wall.
BumpStep ==
    /\ gen = "executing"
    /\ top.k = "block"
    /\ top.i <= Len(top.stmts)
    /\ running
    /\ action_count <= MAX_ACTIONS
    /\ line = Move
    /\ ~path_ahead

-----------------------------------------------------------------------------
(* Claims about the steps and the runs of MazeEngine.                      *)

\* C11: a move() executed facing a wall is a normal step: it adds exactly 1
\* to action_count, suspends once, leaves pos and dir unchanged, logs the
\* bump, leaves running true, and the run goes on with the next statement.
C11_BumpIsStep ==
    [][(ExecBlock /\ BumpStep) =>
          /\ action_count' = action_count + 1
          /\ gen' = "suspended"
          /\ pos' = pos
          /\ dir' = dir
          /\ running'
          /\ log' = Append(log, "Bumped into a wall.")
          /\ stack' = advanced]_vars

\* C11 witness: a run suspended after a bump, still running, with a
\* statement left to execute.
C11_Witness ==
    /\ gen = "suspended"
    /\ running
    /\ trail # <<>>
    /\ trail[Len(trail)].op = "move"
    /\ trail[Len(trail)].log = <<"Bumped into a wall.">>
    /\ top.k = "block"
    /\ top.i <= Len(top.stmts)

\* The statement the generator is about to execute is an action call.
AtActionCall ==
    /\ top.k = "block"
    /\ top.i <= Len(top.stmts)
    /\ line.k = "Expr"
    /\ line.value.k = "Call"
    /\ line.value.func.k = "Name"
    /\ line.value.func.id \in ACTION_FUNCS

\* C12: the generator suspends only right after an action call: a step
\* that ends in a suspension is the execution of one move(), turn_left()
\* or turn_right() statement and adds exactly 1 to action_count, and at
\* every suspension action_count is the number of suspensions of the run.
C12_SuspensionDiscipline ==
    /\ [](gen = "suspended" => action_count = Len(trail))
    /\ [][(gen = "executing" /\ gen' = "suspended") =>
             /\ ExecBlock
             /\ AtActionCall
             /\ action_count' = action_count + 1]_vars

\* C12 witness: a run suspended for the second time inside a loop, after
\* a condition was evaluated.
C12_Witness ==
    /\ gen = "suspended"
    /\ Len(trail) = 2
    /\ Len(stack) >= 2
    /\ \E i \in DOMAIN stack : stack[i].k = "while"

\* The generator of the run has been created and not resumed yet.
Fresh == gen = "suspended" /\ trail = <<>>

\* C14: every successful compile_user_code starts the run from the reset
\* state whatever the state before: pos = maze_start, dir = 1,
\* action_count = 0 and running.
C14_CompileResets ==
    Fresh => (pos = maze_start /\ dir = 1 /\ action_count = 0 /\ running)

\* C14 witness: a fresh run compiled after a run that the budget stopped
\* away from the start.
C14_Witness ==
    /\ Fresh
    /\ prev.gen = "done"
    /\ ~prev.running
    /\ prev.action_count > MAX_ACTIONS
    /\ prev.pos # maze_start

IsPrefix(a, b) == Len(a) <= Len(b) /\ a = SubSeq(b, 1, Len(a))

Ended(g) == g \in {"done", "faulted"}

\* C19: two runs of the same source on the same maze produce the same
\* sequence of step events (action, resulting pos and dir, messages) and
\* end in the same state.
C19_Deterministic ==
    prev.gen # "none" =>
        /\ prev.code = code
        /\ IsPrefix(trail, prev.trail) \/ IsPrefix(prev.trail, trail)
        /\ Ended(gen) => IsPrefix(prev.trail, trail)
        /\ Ended(prev.gen) => IsPrefix(trail, prev.trail)
        /\ (Ended(gen) /\ Ended(prev.gen)) =>
               /\ gen = prev.gen
               /\ pos = prev.pos
               /\ dir = prev.dir
               /\ action_count = prev.action_count
               /\ running = prev.running
               /\ log = prev.log
               /\ raised = prev.raised

\* C19 witness: a second run of a source has ended as the first did, after
\* at least two steps, one of them a bump, and a turn.
C19_Witness ==
    /\ gen = "done"
    /\ prev.gen = "done"
    /\ Len(trail) >= 2
    /\ \E i \in DOMAIN trail : trail[i].log = <<"Bumped into a wall.">>
    /\ \E i \in DOMAIN trail : trail[i].op # "move"

\* The maze has exactly two open cells, neither the goal, ahead of the
\* start facing Right, and then a wall.
TwoOpenAhead ==
    LET r == maze_start[1]
        c == maze_start[2]
    IN  /\ ~is_wall(r, c + 1) /\ <<r, c + 1>> # maze_goal
        /\ ~is_wall(r, c + 2) /\ <<r, c + 2>> # maze_goal
        /\ is_wall(r, c + 3)

ThreeMoves == <<Move, Move, Move>>

\* C20: three move() statements in a maze with two open cells ahead make
\* exactly 3 steps: two moves that each advance the agent and one bump that
\* leaves it where it was; the generator then ends with running still true
\* and the goal not reached.
C20_ThreeMoves ==
    (TwoOpenAhead /\ code = ThreeMoves /\ gen # "none") =>
        LET r == maze_start[1]
            c == maze_start[2]
            Ev(p, l) == [op |-> "move", pos |-> p, dir |-> 1, log |-> l]
        IN  /\ IsPrefix(trail, <<Ev(<<r, c + 1>>, <<>>), Ev(<<r, c + 2>>, <<>>),
                                 Ev(<<r, c + 2>>, <<"Bumped into a wall.">>)>>)
            /\ gen # "faulted"
            /\ gen = "done" =>
                   /\ Len(trail) = 3
                   /\ action_count = 3
                   /\ running
                   /\ ~at_goal

\* C20 witness: the run of the three moves has ended after its bump.
C20_Witness ==
    /\ TwoOpenAhead
    /\ code = ThreeMoves
    /\ gen = "done"
    /\ Len(trail) = 3
    /\ trail[3].log = <<"Bumped into a wall.">>

-----------------------------------------------------------------------------
(* Claims about the compile phase of the engine and of game.py.            *)

\* The sources compile_user_code rejects, and those run_clicked rejects.
EngineRejects == {src \in Sources : ~compiles(src)}

GameRejects == {src \in Sources : src = Unparsable \/ ~validate_ast(Module(src))}

\* C13: the compile phase is atomic: when the source fails to parse or
\* fails validation, compile_user_code raises and run_clicked logs the
\* error, and pos, dir, action_count and running are what they were, with
\* no new generator.
C13_CompileAtomic ==
    [][/\ \A src \in EngineRejects :
             (who = "engine" /\ compile_user_code(src)) =>
                 /\ raised' = "UserCodeError"
                 /\ UNCHANGED <<pos, dir, action_count, running, code, gen, stack>>
       /\ \A src \in GameRejects :
             (who = "game" /\ run_clicked(src)) =>
                 /\ log' \in {<<"Syntax error">>, <<"Unsupported code">>}
                 /\ UNCHANGED <<pos, dir, action_count, running, code, gen, stack>>]_vars

\* C13 witness: the engine has rejected a source while a run that has
\* performed an action and left the start is suspended.
C13_Witness ==
    /\ who = "engine"
    /\ raised = "UserCodeError"
    /\ gen = "suspended"
    /\ action_count > 0
    /\ pos # maze_start

-----------------------------------------------------------------------------
(* Claims about main.py.                                                   *)

\* C15: every run of the pygame host begins with the agent reset to the
\* start, facing Right, with agent.actions = 0, whether App.start or
\* App.step_once created its generator.
C15_RunBeginsReset ==
    stack = <<StartFrame>> => (pos = Maze_start /\ dir = 1 /\ action_count = 0)

\* C16: when an action makes at_goal() true the run stops after that step:
\* no later step of the run performs another action.
C16_GoalEndsRun ==
    \A i \in DOMAIN trail : trail[i].pos = Maze_goal => i = Len(trail)

-----------------------------------------------------------------------------
(* Claims about game.py.                                                   *)

\* C4: validation is total: the run of a program that validate_ast
\* accepted never ends with exec_block or eval_expr raising CodeError.
C4_ValidationTotal == validate_ast(Module(code)) => gen # "faulted"

-----------------------------------------------------------------------------
(* Claims about maze_game.py.                                              *)

mg_Outcomes ==
    {"Reached the goal!", mg_EndedMsg, mg_StoppedMsg, "Code error"}

\* C17: the output of a run holds at most one outcome message: a run that
\* exceeded the action budget is reported by "Program stopped: exceeded N
\* actions." alone, not also as ended without reaching the goal (first run
\* of the session, so that no other run's generator has a part in it).
C17_OneOutcome ==
    runs = 1 => Cardinality({i \in DOMAIN log : log[i] \in mg_Outcomes}) <= 1

\* C18: only one run is live: a generator that step_runner resumes belongs
\* to the run started last, never to a run that Reset or a later Run has
\* replaced.
C18_OneRunLive == gen = "executing" => owner = runs

-----------------------------------------------------------------------------
(* Claims about the loops, the maze and the conditions of MazeEngine.      *)

\* The integer of a range() bound as the program text gives it.
BoundOf(e) == IF e.k = "UnaryOp" THEN -e.operand.value ELSE e.value

\* max(0, b - a) of the range(a, b) or range(b) call it.
RangeCount(it) ==
    LET a == IF Len(it.args) = 1 THEN 0 ELSE BoundOf(it.args[1])
        b == BoundOf(it.args[Len(it.args)])
    IN  IF b > a THEN b - a ELSE 0

\* The program is one for loop whose body is one action call.
OneForOfOneAction ==
    /\ Len(code) = 1
    /\ code[1].k = "For"
    /\ \E a \in Actions : code[1].body = <<a>>

ForThreeMoves == <<For(Name("_"), Range1(3), <<Move>>, <<>>)>>

\* C21: a for loop over range(a, b) (range(n): a = 0, b = n) whose body is
\* one action has made exactly max(0, b - a) steps when the run ends with
\* the goal not reached and the budget not exceeded; for _ in range(3):
\* move() makes exactly 3 steps, bumps included.
C21_ForRunsBody ==
    (gen = "done" /\ OneForOfOneAction /\ running /\ ~at_goal
        /\ action_count <= MAX_ACTIONS) =>
        /\ Len(trail) = RangeCount(code[1].iter)
        /\ action_count = Len(trail)
        /\ code = ForThreeMoves => Len(trail) = 3

\* C21 witness: for _ in range(3): move() has ended after two moves and a
\* bump.
C21_Witness ==
    /\ gen = "done"
    /\ code = ForThreeMoves
    /\ running /\ ~at_goal
    /\ Len(trail) = 3
    /\ trail[3].log = <<"Bumped into a wall.">>
    /\ trail[2].log = <<>>

\* Corridor mazes with a single turn: from S, facing Right, the way to G
\* turns once.
SingleTurnCorridors == {Turn, Bend, LeftBend}

\* Those whose turn is a right turn for the agent.
RightTurnCorridors == {Turn, Bend}

\* The run has ended Completed: on the goal, stopped by do_move and not by
\* the budget.
Completed ==
    /\ gen = "done"
    /\ ~running
    /\ at_goal
    /\ \A i \in DOMAIN log : log[i] # StoppedMsg

\* C22, as stated: the run of while not at_goal(): if path_ahead(): move()
\* else: turn_right(), started facing Right in a corridor maze with a single
\* turn, ends Completed.
C22_CorridorReachesGoal ==
    (code = WallFollower /\ maze \in SingleTurnCorridors /\ gen = "done") => Completed

\* C22, amended: in a corridor maze whose single turn is a right turn the
\* run of that program, once started and resumed by the host, reaches the
\* goal and ends Completed.
C22_RightTurnReachesGoal ==
    (code = WallFollower /\ maze \in RightTurnCorridors /\ gen = "suspended")
        ~> Completed

\* C22 witness: the program has walked the corridor that bends to the right
\* (move, turn_right, move) and ended on the goal.
C22_Witness ==
    /\ code = WallFollower
    /\ maze = Bend
    /\ Completed
    /\ Len(trail) = 3
    /\ trail[2].op = "turn_right"

\* The lines of the text that are rows of the maze: those not blank.
RowsOf(text) == {i \in DOMAIN text : \E j \in DOMAIN text[i] : text[i][j] # " "}

\* How often ch occurs in the text.
CountOf(text, ch) ==
    Cardinality({<<i, j>> \in (1 .. MaxTextRows + 1) \X (1 .. MaxTextCols + 1) :
                    i \in DOMAIN text /\ j \in DOMAIN text[i] /\ text[i][j] = ch})

\* Equal-width rows, at least one, exactly one S and exactly one G.
WellFormed(text) ==
    /\ RowsOf(text) # {}
    /\ \A i, j \in RowsOf(text) : Len(text[i]) = Len(text[j])
    /\ CountOf(text, "S") = 1
    /\ CountOf(text, "G") = 1

\* MazeEngine(maze_str) has returned or raised.
Constructed == maze # <<>> \/ raised # "none"

OpenCell(p) ==
    /\ p[1] \in 1 .. Len(maze)
    /\ p[2] \in 1 .. Len(maze[1])
    /\ maze[p[1]][p[2]] # "#"

\* The cell (1-based) one step from the 0-based position (r, c) in the
\* direction d: 0 up, 1 right, 2 down, 3 left.
OneStep(r, c, d) ==
    CASE d = 0 -> <<r, c + 1>>
      [] d = 1 -> <<r + 1, c + 2>>
      [] d = 2 -> <<r + 2, c + 1>>
      [] d = 3 -> <<r + 1, c>>

\* The coordinates around the grid, one and two cells out.
AroundGrid ==
    {p \in (-2 .. Len(maze) + 1) \X (-2 .. Len(maze[1]) + 1) :
        ~(p[1] \in 0 .. Len(maze) - 1 /\ p[2] \in 0 .. Len(maze[1]) - 1)}

\* C24: in every pose path_ahead, path_left and path_right of the engine
\* and path_behind of maze.py are true iff the cell one step away in the
\* direction dir, (dir - 1) mod 4, (dir + 1) mod 4, (dir + 2) mod 4 is
\* inside the grid and not '#'; is_wall is true of every coordinate outside
\* the grid.
C24_PathPredicates ==
    /\ who = "engine" =>
           /\ path_ahead <=> OpenCell(OneStep(pos[1], pos[2], dir))
           /\ path_left <=> OpenCell(OneStep(pos[1], pos[2], (dir + 3) % 4))
           /\ path_right <=> OpenCell(OneStep(pos[1], pos[2], (dir + 1) % 4))
    /\ who = "api" =>
           /\ py_path_behind <=> OpenCell(OneStep(row, col, (direction + 2) % 4))
           /\ py_path_ahead <=> OpenCell(OneStep(row, col, direction))
           /\ py_path_left <=> OpenCell(OneStep(row, col, (direction + 3) % 4))
           /\ py_path_right <=> OpenCell(OneStep(row, col, (direction + 1) % 4))
    /\ \A p \in AroundGrid : is_wall(p[1], p[2]) /\ py_is_wall(p[1], p[2])

\* C24 witness: some calls on, the agent of maze.py faces up with the edge
\* of the grid behind it and open cells ahead and to its right.
C24_Witness ==
    /\ who = "api"
    /\ Len(trail) >= 2
    /\ direction = 0
    /\ ~py_path_behind
    /\ py_path_ahead
    /\ py_path_right

\* The least of a non-empty set of numbers.
Least(S) == CHOOSE n \in S : \A m \in S : n <= m

RECURSIVE Meaning(_)
\* What a condition means in the current pose: "T", "F", or "E" when its
\* evaluation faults.  and: the first operand, from the left, that is not
\* true decides; or: the first that is not false; no operand after the
\* deciding one counts.
Meaning(e) ==
    LET OfBool(b) == IF b THEN "T" ELSE "F"
    IN  IF e.k = "Call" THEN
            IF e.func.k = "Name" /\ e.args = <<>> /\ e.keywords = <<>>
            THEN CASE e.func.id = "at_goal" -> OfBool(pos = maze_goal)
                   [] e.func.id = "path_ahead" -> OfBool(OpenCell(OneStep(pos[1], pos[2], dir)))
                   [] e.func.id = "path_left" ->
                          OfBool(OpenCell(OneStep(pos[1], pos[2], (dir + 3) % 4)))
                   [] e.func.id = "path_right" ->
                          OfBool(OpenCell(OneStep(pos[1], pos[2], (dir + 1) % 4)))
                   [] OTHER -> "E"
            ELSE "E"
        ELSE IF e.k = "UnaryOp" /\ e.op = "Not" THEN
            LET m == Meaning(e.operand)
            IN  IF m = "E" THEN "E" ELSE OfBool(m = "F")
        ELSE IF e.k = "BoolOp" THEN
            LET pass == IF e.op = "And" THEN "T" ELSE "F"
                deciding == {i \in DOMAIN e.values : Meaning(e.values[i]) # pass}
            IN  IF deciding = {} THEN pass ELSE Meaning(e.values[Least(deciding)])
        ELSE IF e.k = "Constant" /\ e.ty = "bool" THEN OfBool(e.value = 1)
        ELSE IF e.k = "Compare" /\ Len(e.ops) = 1 /\ Len(e.comparators) = 1
                /\ e.ops[1] \in {"Eq", "NotEq"} THEN
            LET l == Meaning(e.left)
                r == Meaning(e.comparators[1])
            IN  IF l = "E" \/ r = "E" THEN "E"
                ELSE OfBool((l = r) <=> (e.ops[1] = "Eq"))
        ELSE "E"

\* exec_block is about to evaluate the test of an if statement.
AtIfTest ==
    /\ gen = "executing"
    /\ top.k = "block"
    /\ top.i <= Len(top.stmts)
    /\ running
    /\ action_count <= MAX_ACTIONS
    /\ line.k = "If"

\* exec_block is about to evaluate the test of a while loop.
AtWhileTest == gen = "executing" /\ top.k = "while" /\ top.ph = "test" /\ running

\* The step changes nothing of the world and does not suspend.
NoEffect ==
    /\ UNCHANGED <<maze, pos, dir, action_count, running, log, trail>>
    /\ gen' # "suspended"

\* C25: evaluating the condition of an if or of a while changes neither pos,
\* dir, action_count, running nor the maze and does not suspend; and is
\* decided by its first false operand from the left, or by its first true
\* one: the step faults only if the deciding operand, or one before it,
\* faults, and otherwise enters the body or leaves it as the condition
\* means.
C25_EvalPureShortCircuit ==
    [][/\ (ExecBlock /\ AtIfTest) =>
            /\ NoEffect
            /\ (gen' = "faulted") <=> (Meaning(line.test) = "E")
            /\ Meaning(line.test) = "T" => stack' = Append(advanced, BlockFrame(line.body))
            /\ (Meaning(line.test) = "F" /\ line.orelse = <<TurnRight>>) =>
                   stack' = Append(advanced, BlockFrame(line.orelse))
       /\ (ExecWhile /\ AtWhileTest) =>
            /\ NoEffect
            /\ (gen' = "faulted") <=> (Meaning(top.node.test) = "E")
            /\ Meaning(top.node.test) = "T" =>
                   stack' = Append(Append(rest, [top EXCEPT !.ph = "after"]),
                                   BlockFrame(top.node.body))]_vars

\* C25 witness: if False and 1: move() else: turn_right() has run to its
\* end through the else branch, the 1 never evaluated.
C25_Witness ==
    /\ code = <<If(BoolOp("And", <<False, Num(1)>>), <<Move>>, <<TurnRight>>)>>
    /\ gen = "done"
    /\ Len(trail) = 1
    /\ trail[1].op = "turn_right"

-----------------------------------------------------------------------------
(* Claims about the validator of game.py.                                  *)

\* An integer literal in 0..1000.
SmallIntLiteral(a) == a.k = "Constant" /\ a.ty = "int" /\ a.value \in 0 .. 1000

\* for <name> in range(a) or range(a, b), a and b integer literals in
\* 0..1000.
BoundedFor(s) ==
    /\ s.target.k = "Name"
    /\ s.iter.k = "Call"
    /\ s.iter.func.k = "Name"
    /\ s.iter.func.id = "range"
    /\ s.iter.keywords = <<>>
    /\ Len(s.iter.args) \in {1, 2}
    /\ \A i \in DOMAIN s.iter.args : SmallIntLiteral(s.iter.args[i])

RECURSIVE ForsBounded(_)
\* Every for loop among the statements, at any depth, is a BoundedFor.
ForsBounded(stmts) ==
    \A i \in DOMAIN stmts :
        LET s == stmts[i]
        IN  /\ s.k = "For" => BoundedFor(s)
            /\ s.k \in {"If", "While", "For"} => ForsBounded(s.body) /\ ForsBounded(s.orelse)

\* C26: a program that run_clicked of game.py has accepted and started has
\* only for loops whose target is a simple name and whose iterable is
\* range with no keywords and one or two arguments, each an integer literal
\* in 0..1000.
C26_ForValidated == (who = "game" /\ gen # "none") => ForsBounded(code)

-----------------------------------------------------------------------------
(* Claims about the interpreter of main.py.                                *)

\* _exec is about to execute the statement line.
AtMainStatement == gen = "executing" /\ top.k = "block" /\ top.i <= Len(top.stmts)

\* The name an Assign or AugAssign statement binds.
TargetOf(s) == IF s.k = "Assign" THEN s.targets[1].id ELSE s.target.id

\* C27: executing an Assign or AugAssign changes no binding but the named
\* one, makes no step and leaves the agent's position, direction and
\* actions as they were; actions changes only by Agent.reset, to 0, or by a
\* call of move, turn_left or turn_right, by exactly 1.
C27_AssignOnlyBinds ==
    [][/\ (MainExec /\ AtMainStatement /\ line.k \in {"Assign", "AugAssign"}) =>
            /\ UNCHANGED <<maze, pos, dir, action_count, trail>>
            /\ gen' # "suspended"
            /\ gen' = "executing" =>
                   /\ DOMAIN locals' = DOMAIN locals \cup {TargetOf(line)}
                   /\ \A x \in DOMAIN locals : x # TargetOf(line) => locals'[x] = locals[x]
       /\ action_count' # action_count =>
            \/ action_count' = 0
            \/ /\ MainExec /\ AtMainStatement
               /\ line.k = "Expr"
               /\ line.value.func.id \in {"move", "turn_left", "turn_right"}
               /\ action_count' = action_count + 1
               /\ Len(trail') = Len(trail) + 1]_vars

\* C27 witness: x = 0, y = 2, x -= 1 have run with no action counted, and
\* the move after them has counted one.
C27_Witness ==
    /\ who = "main"
    /\ DOMAIN locals = {"x", "y"}
    /\ locals["x"] = -1
    /\ locals["y"] = 2
    /\ action_count = 1
    /\ Len(trail) = 1

-----------------------------------------------------------------------------
(* Claims about the while loop of MazeEngine.                              *)

\* The step is one of the while loop at the top of the stack.
AtWhile == ExecWhile /\ gen = "executing" /\ top.k = "while"

\* The step enters the body of that loop, which stays on the stack.
EntersBody ==
    /\ Len(stack') = Len(stack) + 1
    /\ stack'[Len(stack)].k = "while"
    /\ stack'[Len(stack')] = BlockFrame(top.node.body)

\* The step leaves that loop for its else-body.
EntersElse ==
    /\ top.node.orelse # <<>>
    /\ stack' = Append(rest, BlockFrame(top.node.orelse))

WhileFalseElse == <<While(False, <<Move>>, <<TurnRight>>)>>

WhileTrueElse == <<While(True, <<Move>>, <<TurnRight>>)>>

\* C28: the while loop enters its body only from an evaluation of its test
\* that is true with the run still running; it never enters its else-body
\* once running is false, so that the else of while True: move() never
\* acts; when the test is false with the run running, the loop is left for
\* its else-body, if it has one, and the else-body of while False has acted
\* exactly once when the run is over.
C28_WhileElse ==
    /\ [][AtWhile =>
            /\ EntersBody => (top.ph = "test" /\ running /\ Meaning(top.node.test) = "T")
            /\ EntersElse => running
            /\ (top.ph = "test" /\ running /\ Meaning(top.node.test) = "F"
                    /\ top.node.orelse # <<>>) => EntersElse
            /\ (top.ph = "after" /\ action_count <= MAX_ACTIONS) =>
                    stack' = Append(rest, [top EXCEPT !.ph = "test"])]_vars
    /\ [](code = WhileTrueElse => \A i \in DOMAIN trail : trail[i].op # "turn_right")
    /\ []((code = WhileFalseElse /\ gen = "done") =>
              (Len(trail) = 1 /\ trail[1].op = "turn_right"))

\* C28 witness: while True: move() else: turn_right() has ended on the goal
\* with three moves and no turn.
C28_Witness ==
    /\ code = WhileTrueElse
    /\ gen = "done"
    /\ at_goal
    /\ ~running
    /\ Len(trail) = 3

-----------------------------------------------------------------------------
(* Claims about run_user_code of maze.py.                                  *)

\* A limit has tripped: the trace function has raised.
LimitTripped == \E i \in DOMAIN trail : trail[i].op = "StepLimitError"

\* C29: whenever the user code has exceeded max_steps or max_seconds, the
\* call of run_user_code ends by raising TimeoutError.
C29_RaisesTimeoutError ==
    (who = "maze" /\ LimitTripped /\ exec_state # "running") =>
        (exec_state = "raised" /\ raised = "TimeoutError")

\* C30: the step budget is fatal: at most max_steps lines of the user code
\* are executed, no line is executed after the limit has tripped, and once
\* it has tripped the call is over.
C30_BudgetFatal ==
    who = "maze" =>
        /\ executed <= max_steps
        /\ \A i \in DOMAIN trail :
               trail[i].op = "StepLimitError" => i = Len(trail)
        /\ LimitTripped => exec_state = "raised"

-----------------------------------------------------------------------------
(* Claims about the Pyodide API: maze.py and maze_api.py.                  *)

\* The last call of the behaviour was a call of op.
JustCalled(op) == Len(trail') = Len(trail) + 1 /\ trail'[Len(trail')].op = op

\* C31: a move() of maze.py or maze_api.py whose next cell is a wall or is
\* outside the maze raises RuntimeError, leaves row, col and direction as
\* they were and enqueues nothing; a move() into any other cell advances
\* (row, col) one cell in the facing direction and enqueues exactly one
\* "move".
C31_ApiMove ==
    [][(who \in {"api", "py"} /\ JustCalled("move")) =>
          IF OpenCell(OneStep(row, col, direction))
          THEN /\ <<row' + 1, col' + 1>> = OneStep(row, col, direction)
               /\ direction' = direction
               /\ queue' = Append(queue, "move")
               /\ raised' = "none"
          ELSE /\ raised' = "RuntimeError"
               /\ <<row', col', direction'>> = <<row, col, direction>>
               /\ queue' = queue]_vars

\* C31 witness: maze.py has moved twice and its last move() raised at the
\* edge of the maze, with the two moves in the queue.
C31_Witness ==
    /\ who = "py"
    /\ Len(trail) >= 3
    /\ trail[Len(trail)].op = "move"
    /\ raised = "RuntimeError"
    /\ ~py_in_bounds(step_forward(row, col, direction)[1],
                     step_forward(row, col, direction)[2])
    /\ Len(SelectSeq(queue, LAMBDA a : a = "move")) = 2

\* A call of follow_right_wall has begun.
Following == who = "api" /\ exec_state # "none"

\* C32: follow_right_wall(max_steps), called from any pose the API can
\* reach, never raises: each move() it issues is into a cell that is not a
\* wall; it makes at most max_steps iterations of at most 2 actions each,
\* and returns at the goal or after exactly max_steps iterations.
C32_FollowRightWall ==
    Following =>
        /\ exec_state # "raised"
        /\ raised = "none"
        /\ f_lineno \in {172, 174} => OpenCell(OneStep(row, col, direction))
        /\ steps <= fr_max_steps
        /\ Len(queue) - iter_mark <= 2
        /\ exec_state = "returned" =>
               (<<row, col>> = maze_goal \/ steps = fr_max_steps)

\* C32 witness: called after direct calls from a cell that a direct move()
\* left, the function has made two actions in some iteration and has
\* returned in that cell, short of the goal, after max_steps iterations.
C32_Witness ==
    /\ Following
    /\ exec_state = "returned"
    /\ Len(trail) >= 2
    /\ \E i \in DOMAIN trail : trail[i].op = "move" /\ trail[i].pos = <<row, col>>
    /\ <<row, col>> # maze_goal
    /\ steps = fr_max_steps
    /\ Len(queue) - Len(trail) >= fr_max_steps + 1

-----------------------------------------------------------------------------
(* Claims about the invariants, the budget and the termination of          *)
(* MazeEngine.                                                             *)

\* The pose of the engine is a legal one.
LegalPose == OpenCell(<<pos[1] + 1, pos[2] + 1>>) /\ dir \in 0 .. 3

\* C33: once the maze is loaded and the engine reset, in every state pos is
\* inside the grid on a cell that is not a wall and dir is one of 0, 1, 2,
\* 3, and no action, predicate, reset or run changes the grid, maze_start
\* or maze_goal.
C33_PoseLegalMazeFixed ==
    /\ [](who = "engine" => LegalPose)
    /\ [][who = "engine" =>
             /\ maze' = maze
             /\ maze_start' = maze_start
             /\ maze_goal' = maze_goal]_vars

\* C33 witness: in a second run, compiled after a run that ended away from
\* the start, the agent has left the start and faces up beside a wall.
C33_Witness ==
    /\ who = "engine"
    /\ prev.gen = "done"
    /\ prev.pos # maze_start
    /\ gen = "suspended"
    /\ pos # maze_start
    /\ dir = 0
    /\ ~path_left
    /\ \E r \in 1 .. Len(maze), c \in 1 .. Len(maze[1]) : maze[r][c] = "#"

\* C34: in every state of every run action_count <= MAX_ACTIONS + 1, and
\* no action call is executed from a state in which action_count >
\* MAX_ACTIONS or running is false.
C34_BudgetGuardsActions ==
    /\ [](who = "engine" => action_count <= MAX_ACTIONS + 1)
    /\ [][(who = "engine" /\ gen = "executing" /\
              (action_count' # action_count \/ gen' = "suspended")) =>
             /\ AtActionCall
             /\ running
             /\ action_count <= MAX_ACTIONS]_vars

\* C34 witness: a run stopped by the budget at an action call it did not
\* execute, with action_count = MAX_ACTIONS + 1.
C34_Witness ==
    /\ who = "engine"
    /\ action_count = MAX_ACTIONS + 1
    /\ ~running
    /\ gen = "done"
    /\ Len(log) > 0
    /\ log[Len(log)] = StoppedMsg
    /\ Len(trail) = MAX_ACTIONS + 1

\* The statement is a call of one of the three actions.
ActionStmt(s) ==
    /\ s.k = "Expr"
    /\ s.value.k = "Call"
    /\ s.value.func.k = "Name"
    /\ s.value.func.id \in ACTION_FUNCS
    /\ s.value.args = <<>>
    /\ s.value.keywords = <<>>

\* The block calls an action whenever it is executed to its end: one of
\* its statements is an action call, a for loop of at least one round whose
\* body calls one, or an if whose two branches both call one.
RECURSIVE MustAct(_)
MustAct(stmts) ==
    \E i \in DOMAIN stmts :
        LET s == stmts[i]
        IN  \/ ActionStmt(s)
            \/ /\ s.k = "For"
               /\ s.iter.k = "Call"
               /\ \A j \in DOMAIN s.iter.args : s.iter.args[j].k = "Constant"
               /\ RangeCount(s.iter) >= 1
               /\ MustAct(s.body)
            \/ s.k = "If" /\ MustAct(s.body) /\ MustAct(s.orelse)

\* Every while loop of the tree calls an action in each of its iterations.
RECURSIVE WhilesAct(_)
WhilesAct(n) ==
    /\ n.k = "While" => MustAct(n.body)
    /\ \A i \in DOMAIN Children(n) : WhilesAct(Children(n)[i])

-----------------------------------------------------------------------------
(* Claims about the termination of the runs of main.py.                    *)

\* The while statement about to evaluate a true test for the iteration
\* after its last allowed one.
GuardTrips ==
    /\ gen = "executing"
    /\ top.k = "while"
    /\ top.guard = LOOP_GUARD
    /\ SafeInterpreter_eval(top.node.test).ok
    /\ SafeInterpreter_eval(top.node.test).v # 0

\* C36: every run driven by App.step_once terminates: one execution of a
\* while statement makes at most LOOP_GUARD iterations (the next one raises
\* and the run ends as an error), and App stops the run with 'Max actions
\* exceeded.' at the first step after which agent.actions > max_actions.
C36_MainRunsTerminate ==
    /\ [](who = "main" =>
             \A i \in DOMAIN stack : stack[i].k = "while" => stack[i].guard <= LOOP_GUARD)
    /\ [][(who = "main" /\ GuardTrips) => (gen' = "none" /\ ~running' /\ log' = <<"Error">>)]_vars
    /\ [][(who = "main" /\ action_count' > max_actions /\ action_count' # action_count) =>
             (gen' = "none" /\ ~running' /\ log' = <<"Max actions exceeded.">>)]_vars
    /\ (who = "main" /\ gen # "none") ~> (gen = "none")

\* C36 witness: a run has ended as an error in a while loop that made
\* LOOP_GUARD iterations after the program's one action.
C36_Witness ==
    /\ who = "main"
    /\ gen = "none"
    /\ log = <<"Error">>
    /\ Len(code) = 2
    /\ code[2].k = "While"
    /\ code[2].test = True
    /\ Len(trail) = 1

-----------------------------------------------------------------------------
(* Claims about the timer callbacks of game.py.                            *)

\* C37: whatever the order of Run, Reset and the timer callbacks, at most
\* one step_runner callback is pending at any time, so the live generator
\* is resumed at most once per timer delay.
C37_OneCallbackPending == who = "game" => timers <= 1

\* The pose the host's animation reaches from <<r, c, d>> by the actions of
\* q from the i-th on; it moves and turns as told.
RECURSIVE Replay(_, _, _)
Replay(q, i, p) ==
    IF i > Len(q) THEN p
    ELSE Replay(q, i + 1,
                CASE q[i] = "move" ->
                         <<OneStep(p[1], p[2], p[3])[1] - 1,
                           OneStep(p[1], p[2], p[3])[2] - 1, p[3]>>
                  [] q[i] = "turnLeft" -> <<p[1], p[2], (p[3] + 3) % 4>>
                  [] q[i] = "turnRight" -> <<p[1], p[2], (p[3] + 1) % 4>>)

\* C38: after every call of move, turn_left, turn_right and reset_state of
\* maze.py, also one that raised, replaying the actions enqueued since the
\* last reset_state from the start cell facing Right gives the current row,
\* col and direction.
C38_QueueMatchesPose ==
    who = "py" =>
        Replay(queue, queue_mark + 1, <<maze_start[1], maze_start[2], 1>>)
            = <<row, col, direction>>

\* C38 witness: after a reset_state that followed enqueued actions, maze.py
\* has left the start, turned, and its last move() raised.
C38_Witness ==
    /\ who = "py"
    /\ queue_mark > 0
    /\ Len(queue) >= queue_mark + 2
    /\ <<row, col>> # maze_start
    /\ direction # 1
    /\ raised = "RuntimeError"
    /\ trail[Len(trail)].op = "move"

-----------------------------------------------------------------------------
(* Claims about the grid MazeEngine loads.                                 *)

\* The line has characters: it is a row of the text.
IsRow(l) == l # <<>>

\* C39: an accepted maze is loaded as written: the grid has one row for
\* each row of the text, in order, and maze[r][c] is character c of row r,
\* also for rows that consist of open (space) cells only.
C39_LoadFaithful ==
    (Constructed /\ raised = "none") => maze = SelectSeq(maze_str, IsRow)

====
